---- MODULE Spec2Model ----
(***************************************************************************)
(* Model of the Protobuf-Decoder decoding engine                           *)
(* (src/services/protobufDecoder.ts): the ProtoReader byte cursor, the     *)
(* recursive wire-format decoder `decode` with schema-aware typing and     *)
(* the schema-less heuristic, run one reader call at a time on the         *)
(* top-level buffer; its entry point decodeProtobuf with hexToBytes and    *)
(* parseProto; and the projection of a result to JSON                      *)
(* (src/services/jsonConverter.ts) as the worker applies it.               *)
(*                                                                         *)
(* Representation of JavaScript values                                     *)
(*   Uint8Array  a sequence of bytes 0..255; the code's 0-based offset p   *)
(*               is element p+1 of the sequence.                           *)
(*   bigint >= 0 the set of positions of its one-bits (TLC integers are    *)
(*               32 bits wide, the code's BigInt values are unbounded).    *)
(*   bigint      [inv, bits]: the value whose two's-complement digits are  *)
(*               `bits`, all complemented when inv (so inv means -v-1).    *)
(*   string      a sequence of character codes.                            *)
(*   undefined   Undefined.                                                *)
(***************************************************************************)
EXTENDS Integers, Sequences, FiniteSets, TLC

VARIABLES buffer, schema, currentMessageName, baseOffset,
          pos, fields, fieldStart, tag, len, pc, res,
          input, protoSchema, thrown, json,
          results, isLoading, sourceMap, jsonPathMap,
          timers, inbox, outbox, requests, sent, replies

\* the state of useProtobufDecoder, the pending timeouts, the messages on
\* their way to and from the worker, and the history of the calls, of the
\* messages posted to the worker and of its replies
hook == <<results, isLoading, sourceMap, jsonPathMap,
          timers, inbox, outbox, requests, sent, replies>>

vars == <<buffer, schema, currentMessageName, baseOffset,
          pos, fields, fieldStart, tag, len, pc, res,
          input, protoSchema, thrown, json, hook>>

Undefined == "undefined"

(***************************************************************************)
(* Bounds of the model.                                                    *)
(***************************************************************************)
\* longest buffer drawn exhaustively over Alphabet
MaxLen == 4
\* longest buffer drawn over VarintAlphabet (varints of ten and more bytes)
MaxVarLen == 11
\* the non-zero baseOffset tried
MaxBase == 3
\* longest hex string drawn exhaustively over HexChars
MaxHexLen == 4

\* the number of calls of the hook's decode
MaxCalls == 2

(***************************************************************************)
(* bigint arithmetic on bit sets.                                          *)
(***************************************************************************)
RECURSIVE Pow2Rec(_)
Pow2Rec(n) == IF n = 0 THEN 1 ELSE 2 * Pow2Rec(n - 1)

Pow2Table == [i \in 0..30 |-> Pow2Rec(i)]

Pow2(n) == Pow2Table[n]

ByteBitsTable == [n \in 0..255 |-> {i \in 0..7 : (n \div Pow2(i)) % 2 = 1}]

\* BigInt(byte) & 0x7Fn, and more generally the bits of a small number
BitsOf(n) ==
    IF n <= 255 THEN ByteBitsTable[n] ELSE {i \in 0..30 : (n \div Pow2(i)) % 2 = 1}

ShiftLeft(bits, k) == {i + k : i \in bits}

ShiftRight(bits, k) == {i - k : i \in {j \in bits : j >= k}}

RECURSIVE SumBits(_)
SumBits(bits) ==
    IF bits = {} THEN 0
    ELSE LET i == CHOOSE j \in bits : TRUE
         IN  Pow2(i) + SumBits(bits \ {i})

\* the value of a bit set that fits a TLC integer
ToInt(bits) == SumBits(bits)

FitsInt(bits) == \A i \in bits : i <= 29

Max(S) == CHOOSE x \in S : \A y \in S : y <= x

\* x + 2^k on bit sets (ripple carry)
AddBit(bits, k) ==
    LET j == CHOOSE c \in k..(Max(bits \cup {k}) + 1) :
                 /\ c \notin bits
                 /\ \A d \in k..(c - 1) : d \in bits
    IN  (bits \ (k..(j - 1))) \cup {j}

\* Number(b) for a bigint b >= 0: exact when the one-bits span at most 53
\* positions, else rounded to the nearest double (ties to even).
Number(bits) ==
    IF bits = {} THEN {}
    ELSE LET top  == Max(bits)
             low  == top - 52
             kept == {i \in bits : i >= low}
             half == (low - 1) \in bits
             rest == \E i \in bits : i < low - 1
         IN  IF ~half THEN kept
             ELSE IF rest \/ low \in bits THEN AddBit(kept, low)
             ELSE kept

\* signed bigints
Signed(inv, bits) == [inv |-> inv, bits |-> bits]

\* -(n & 1n): 0 or -1 (all ones)
NegLowBit(bits) == Signed(0 \in bits, {})

\* a ^ b on two's-complement digits
Xor(a, b) ==
    Signed(a.inv # b.inv, (a.bits \ b.bits) \cup (b.bits \ a.bits))

\* the value of a signed bigint that fits a TLC integer
SignedToInt(s) == IF s.inv THEN -ToInt(s.bits) - 1 ELSE ToInt(s.bits)

\* a zigzag decoding that forgets the sign
zigzagDecode_ShiftOnly(n) == Signed(FALSE, ShiftRight(n, 1))

zigzagDecode(n) == Xor(Signed(FALSE, ShiftRight(n, 1)), NegLowBit(n))

(***************************************************************************)
(* Hex rendering.                                                          *)
(***************************************************************************)
\* one digit of Number.prototype.toString(16)
HexDigit(d) == IF d < 10 THEN 48 + d ELSE 87 + d

\* HEX_TABLE[i] = (i + 0x100).toString(16).substr(1)
HEX_TABLE(i) == <<HexDigit(i \div 16), HexDigit(i % 16)>>

RECURSIVE bytesToHex(_)
bytesToHex(bytes) ==
    IF Len(bytes) = 0 THEN <<>>
    ELSE IF Len(bytes) = 1 THEN HEX_TABLE(bytes[1])
    ELSE HEX_TABLE(bytes[1]) \o <<32>> \o bytesToHex(Tail(bytes))

\* buffer.subarray(from, to) with 0-based, end-exclusive offsets
subarray(buf, from, to) == SubSeq(buf, from + 1, to)

(***************************************************************************)
(* Error texts: a string is built from literal pieces and numbers.         *)
(***************************************************************************)
Str(s) == [s |-> s, n |-> {}]

Num(bits) == [s |-> "#", n |-> bits]

(***************************************************************************)
(* ProtoReader: each read returns whether it returned or threw, the value  *)
(* returned or the message thrown, and the cursor afterwards.              *)
(***************************************************************************)
Returned(value, p) == [ok |-> TRUE, value |-> value, error |-> <<>>, pos |-> p]

Threw(error, p) == [ok |-> FALSE, value |-> {}, error |-> error, pos |-> p]

\* the shift at which readVarint gives up
VarintMaxShift == 64

\* a loop condition that ends the decode before its first field
eof_Always(buf, p) == TRUE

eof(buf, p) == p >= Len(buf)

\* getRemainingBuffer returning the whole buffer
getRemainingBuffer_FromStart(buf, p) == buf

getRemainingBuffer(buf, p) == subarray(buf, p, Len(buf))

RECURSIVE readVarintLoop(_, _, _, _, _)
readVarintLoop(buf, p, result, shift, initialPos) ==
    IF p < Len(buf)
    THEN LET byte   == buf[p + 1]
             result2 == result \cup ShiftLeft(BitsOf(byte % 128), shift)
         IN  IF byte < 128 THEN Returned(result2, p + 1)
             ELSE IF shift + 7 >= VarintMaxShift
                  THEN Threw(<<Str("Varint is too long or invalid.")>>, p + 1)
                  ELSE readVarintLoop(buf, p + 1, result2, shift + 7, initialPos)
    ELSE Threw(<<Str("Unterminated varint")>>, initialPos)

\* a readVarint that reads 0 at the end of the buffer instead of throwing
readVarint_ZeroAtEnd(buf, p) ==
    IF p >= Len(buf) THEN Returned({}, p) ELSE readVarintLoop(buf, p, {}, 0, p)

\* a read that returns the varint and leaves the cursor where it was
readVarint_Peek(buf, p) ==
    [readVarintLoop(buf, p, {}, 0, p) EXCEPT !.pos = p]

readVarint(buf, p) == readVarintLoop(buf, p, {}, 0, p)

\* the little-endian unsigned value of a byte slice
RECURSIVE LittleEndian(_)
LittleEndian(bytes) ==
    IF bytes = <<>> THEN {}
    ELSE BitsOf(bytes[1]) \cup ShiftLeft(LittleEndian(Tail(bytes)), 8)

\* DataView.getUint32 / getBigUint64 (little-endian)
getUint(view) == LittleEndian(view)

\* DataView.getInt32 / getBigInt64 (little-endian, two's complement)
getInt(view) ==
    LET u == LittleEndian(view)
        w == 8 * Len(view)
    IN  IF (w - 1) \in u THEN Signed(TRUE, (0..(w - 1)) \ u) ELSE Signed(FALSE, u)

\* DataView.getFloat32 / getFloat64: the IEEE-754 value of the bit pattern;
\* every NaN pattern reads as the one NaN of JavaScript.
getFloat(view) ==
    LET u    == LittleEndian(view)
        w    == 8 * Len(view)
        mant == IF w = 32 THEN 23 ELSE 52
    IN  IF (\A i \in mant..(w - 2) : i \in u) /\ (\E i \in 0..(mant - 1) : i \in u)
        THEN [nan |-> TRUE, pattern |-> {}]
        ELSE [nan |-> FALSE, pattern |-> u]

readFixed32(buf, p) ==
    IF p + 4 > Len(buf) THEN Threw(<<Str("Buffer underflow for fixed32")>>, p)
    ELSE Returned(subarray(buf, p, p + 4), p + 4)

readFixed64(buf, p) ==
    IF p + 8 > Len(buf) THEN Threw(<<Str("Buffer underflow for fixed64")>>, p)
    ELSE Returned(subarray(buf, p, p + 8), p + 8)

\* n is a Number (bit set), possibly far beyond the buffer
readBytes(buf, p, n) ==
    IF ~FitsInt(n) \/ p + ToInt(n) > Len(buf)
    THEN Threw(<<Str("Buffer underflow trying to read "), Num(n), Str(" bytes")>>, p)
    ELSE Returned(subarray(buf, p, p + ToInt(n)), p + ToInt(n))

(***************************************************************************)
(* new TextDecoder("utf-8", { fatal: true }).decode(bytes): the code       *)
(* points of a well-formed UTF-8 sequence (a leading byte order mark is    *)
(* dropped), or a TypeError.                                               *)
(***************************************************************************)
IsCont(bytes, i, lo, hi) == i <= Len(bytes) /\ bytes[i] >= lo /\ bytes[i] <= hi

RECURSIVE Utf8Loop(_, _, _)
Utf8Loop(bytes, i, acc) ==
    IF i > Len(bytes) THEN [ok |-> TRUE, text |-> acc]
    ELSE LET b == bytes[i]
             bad == [ok |-> FALSE, text |-> <<>>]
         IN  IF b <= 127 THEN Utf8Loop(bytes, i + 1, Append(acc, b))
             ELSE IF b >= 194 /\ b <= 223
             THEN IF IsCont(bytes, i + 1, 128, 191)
                  THEN Utf8Loop(bytes, i + 2,
                           Append(acc, (b % 32) * 64 + (bytes[i + 1] % 64)))
                  ELSE bad
             ELSE IF b >= 224 /\ b <= 239
             THEN LET lo == IF b = 224 THEN 160 ELSE 128
                      hi == IF b = 237 THEN 159 ELSE 191
                  IN  IF IsCont(bytes, i + 1, lo, hi) /\ IsCont(bytes, i + 2, 128, 191)
                      THEN Utf8Loop(bytes, i + 3,
                               Append(acc, (b % 16) * 4096 + (bytes[i + 1] % 64) * 64
                                           + (bytes[i + 2] % 64)))
                      ELSE bad
             ELSE IF b >= 240 /\ b <= 244
             THEN LET lo == IF b = 240 THEN 144 ELSE 128
                      hi == IF b = 244 THEN 143 ELSE 191
                  IN  IF /\ IsCont(bytes, i + 1, lo, hi)
                         /\ IsCont(bytes, i + 2, 128, 191)
                         /\ IsCont(bytes, i + 3, 128, 191)
                      THEN Utf8Loop(bytes, i + 4,
                               Append(acc, (b % 8) * 262144 + (bytes[i + 1] % 64) * 4096
                                           + (bytes[i + 2] % 64) * 64 + (bytes[i + 3] % 64)))
                      ELSE bad
             ELSE bad

TextDecoder(bytes) ==
    LET r == Utf8Loop(bytes, 1, <<>>)
    IN  IF r.ok /\ Len(r.text) > 0 /\ r.text[1] = 65279
        THEN [ok |-> TRUE, text |-> Tail(r.text)]
        ELSE r

InvalidUtf8 == <<Str("The encoded data was not valid.")>>

(***************************************************************************)
(* Optional values (a property that may be undefined).                     *)
(***************************************************************************)
None == <<>>

Some(v) == <<v>>

(***************************************************************************)
(* hexToBytes: two hex digits per byte, nothing else accepted.             *)
(***************************************************************************)
\* the value of one character of a hex string, if it is a hex digit
HexValue(c) ==
    IF c >= 48 /\ c <= 57 THEN Some(c - 48)
    ELSE IF c >= 97 /\ c <= 102 THEN Some(c - 87)
    ELSE IF c >= 65 /\ c <= 70 THEN Some(c - 55)
    ELSE None

InvalidHexCharacter == <<Str("Invalid hex character")>>

OddHexLength == <<Str("Hex string must have an even length")>>

\* hexToBytes reading a character that is no hex digit as 0
RECURSIVE hexToBytesLoop_ZeroForInvalid(_, _, _)
hexToBytesLoop_ZeroForInvalid(hex, i, bytes) ==
    IF i >= Len(hex) THEN Returned(bytes, i)
    ELSE LET val1 == HexValue(hex[i + 1])
             val2 == HexValue(hex[i + 2])
             v1 == IF val1 = None THEN 0 ELSE val1[1]
             v2 == IF val2 = None THEN 0 ELSE val2[1]
         IN  hexToBytesLoop_ZeroForInvalid(hex, i + 2, Append(bytes, 16 * v1 + v2))

\* the loop of hexToBytes from character i (0-based) on
RECURSIVE hexToBytesLoop(_, _, _)
hexToBytesLoop(hex, i, bytes) ==
    IF i >= Len(hex) THEN Returned(bytes, i)
    ELSE LET val1 == HexValue(hex[i + 1])
             val2 == HexValue(hex[i + 2])
         IN  IF val1 = None THEN Threw(InvalidHexCharacter, i)
             ELSE IF val2 = None THEN Threw(InvalidHexCharacter, i)
             ELSE hexToBytesLoop(hex, i + 2, Append(bytes, 16 * val1[1] + val2[1]))

hexToBytes(hex) ==
    IF Len(hex) % 2 # 0 THEN Threw(OddHexLength, 0)
    ELSE hexToBytesLoop(hex, 0, <<>>)

(***************************************************************************)
(* Schemas, in the form parseProto builds them.                            *)
(***************************************************************************)
Null == "null"

FieldDef(name, type, fieldNumber, isRepeated) ==
    [name |-> name, type |-> type, fieldNumber |-> fieldNumber,
     isRepeated |-> isRepeated, isMap |-> FALSE]

NoEntries == [k \in {} |-> {}]

\* decodeProtobuf's schema for a blank schema text
EmptySchema == [messages |-> NoEntries, enums |-> NoEntries, rootMessage |-> Null]

\* enum Color { RED = 0; GREEN = 1; }
ColorEnum == [name |-> "Color", values |-> (0 :> "RED" @@ 1 :> "GREEN")]

\* message Test { int32 id = 1; Sub sub = 2; }
\* message Sub { Color c = 1; string name = 2; }
\* enum Color { RED = 0; GREEN = 1; }
TestSchema ==
    [messages |->
        ("Test" :> [name |-> "Test",
                    fields |-> (1 :> FieldDef("id", "int32", 1, FALSE)
                                @@ 2 :> FieldDef("sub", "Sub", 2, FALSE)),
                    enums |-> NoEntries]
         @@ "Sub" :> [name |-> "Sub",
                      fields |-> (1 :> FieldDef("c", "Color", 1, FALSE)
                                  @@ 2 :> FieldDef("name", "string", 2, FALSE)),
                      enums |-> NoEntries]),
     enums |-> ("Color" :> ColorEnum),
     rootMessage |-> "Test"]

\* message Packed { repeated int32 v = 1; repeated sint32 s = 2; }
PackedSchema ==
    [messages |->
        ("Packed" :> [name |-> "Packed",
                      fields |-> (1 :> FieldDef("v", "int32", 1, TRUE)
                                  @@ 2 :> FieldDef("s", "sint32", 2, TRUE)),
                      enums |-> NoEntries]),
     enums |-> NoEntries,
     rootMessage |-> "Packed"]

\* message Node { Node next = 1; int32 v = 2; }
NodeSchema ==
    [messages |->
        ("Node" :> [name |-> "Node",
                    fields |-> (1 :> FieldDef("next", "Node", 1, FALSE)
                                @@ 2 :> FieldDef("v", "int32", 2, FALSE)),
                    enums |-> NoEntries]),
     enums |-> NoEntries,
     rootMessage |-> "Node"]

\* Map.prototype.get with a Number key
MapGet(map, key) ==
    IF FitsInt(key) /\ ToInt(key) \in DOMAIN map THEN Some(map[ToInt(key)]) ELSE None

\* Map.prototype.get with a string key
MapGetStr(map, key) == IF key \in DOMAIN map THEN Some(map[key]) ELSE None

(***************************************************************************)
(* parseProto.  A schema text is the sequence of its tokens (words,        *)
(* numerals and the punctuation { } = ;) with comments already removed;    *)
(* white space only separates tokens, so the blank text has no token.      *)
(***************************************************************************)
Punctuation == {"{", "}", "=", ";"}

\* parseInt(s, 10) on the numerals the texts use
DecimalValue ==
    ("0" :> 0 @@ "1" :> 1 @@ "2" :> 2 @@ "3" :> 3 @@ "4" :> 4 @@ "5" :> 5 @@ "6" :> 6
     @@ "7" :> 7)

\* \d+
IsNumeral(t) == t \in DOMAIN DecimalValue

\* [\w.]+ and [\w_]+
IsWord(t) == t \notin Punctuation

\* [A-Za-z_][A-Za-z0-9_]*
IsIdentifier(t) == IsWord(t) /\ ~IsNumeral(t)

\* type.startsWith('map')
startsWithMap(type) == type \in {"map<string,int32>"}

\* Map.prototype.set
MapSet(map, key, value) ==
    [k \in DOMAIN map \cup {key} |-> IF k = key THEN value ELSE map[k]]

\* the index of the first } at or after i, 0 when there is none: the end of a
\* non-greedy \{([\s\S]*?)\}
RECURSIVE CloseAt(_, _)
CloseAt(toks, i) ==
    IF i > Len(toks) THEN 0
    ELSE IF toks[i] = "}" THEN i
    ELSE CloseAt(toks, i + 1)

\* a block `keyword name {` that is closed somewhere after i
BlockAt(toks, i, keyword) ==
    /\ i + 2 <= Len(toks)
    /\ toks[i] = keyword
    /\ IsIdentifier(toks[i + 1])
    /\ toks[i + 2] = "{"
    /\ CloseAt(toks, i + 3) # 0

\* cleanProto.replace(/oneof\s+\w+\s*\{([\s\S]*?)\}/g, '$1')
RECURSIVE flattenOneof(_, _)
flattenOneof(toks, i) ==
    IF i > Len(toks) THEN <<>>
    ELSE IF /\ i + 2 <= Len(toks)
            /\ toks[i] = "oneof"
            /\ IsWord(toks[i + 1])
            /\ toks[i + 2] = "{"
            /\ CloseAt(toks, i + 3) # 0
    THEN LET j == CloseAt(toks, i + 3)
         IN  SubSeq(toks, i + 3, j - 1) \o flattenOneof(toks, j + 1)
    ELSE <<toks[i]>> \o flattenOneof(toks, i + 1)

\* valueRegex over an enum body: name = number ;
RECURSIVE enumValues(_, _, _)
enumValues(body, i, values) ==
    IF i + 3 > Len(body) THEN values
    ELSE IF /\ IsIdentifier(body[i])
            /\ body[i + 1] = "="
            /\ IsNumeral(body[i + 2])
            /\ body[i + 3] = ";"
    THEN enumValues(body, i + 4, MapSet(values, DecimalValue[body[i + 2]], body[i]))
    ELSE enumValues(body, i + 1, values)

\* enumRegex over a text: every enum block, wherever it stands
RECURSIVE enumLoop(_, _, _)
enumLoop(toks, i, enums) ==
    IF i > Len(toks) THEN enums
    ELSE IF BlockAt(toks, i, "enum")
    THEN LET j == CloseAt(toks, i + 3)
             enumName == toks[i + 1]
             values == enumValues(SubSeq(toks, i + 3, j - 1), 1, NoEntries)
         IN  enumLoop(toks, j + 1,
                      MapSet(enums, enumName, [name |-> enumName, values |-> values]))
    ELSE enumLoop(toks, i + 1, enums)

\* type name = number ; at index k of a message body
FieldAt(body, k) ==
    /\ k + 4 <= Len(body)
    /\ IsWord(body[k])
    /\ IsWord(body[k + 1])
    /\ body[k + 2] = "="
    /\ IsNumeral(body[k + 3])
    /\ body[k + 4] = ";"

\* the FieldDef of the declaration at index k
ParsedField(body, k, isRepeated) ==
    [name |-> body[k + 1], type |-> body[k],
     fieldNumber |-> DecimalValue[body[k + 3]],
     isRepeated |-> isRepeated \/ startsWithMap(body[k]),
     isMap |-> startsWithMap(body[k])]

\* fieldRegex over a message body
RECURSIVE fieldLoop(_, _, _)
fieldLoop(body, i, defs) ==
    IF i > Len(body) THEN defs
    ELSE IF body[i] = "repeated" /\ FieldAt(body, i + 1)
    THEN fieldLoop(body, i + 6,
                   MapSet(defs, DecimalValue[body[i + 4]], ParsedField(body, i + 1, TRUE)))
    ELSE IF FieldAt(body, i)
    THEN fieldLoop(body, i + 5,
                   MapSet(defs, DecimalValue[body[i + 3]], ParsedField(body, i, FALSE)))
    ELSE fieldLoop(body, i + 1, defs)

\* messages.set, or the merge into a message of the same name when the new
\* block declares a field
MergeOrSet(messages, name, defs, nestedEnums) ==
    IF name \in DOMAIN messages /\ defs # NoEntries
    THEN MapSet(messages, name,
                [name |-> name,
                 fields |-> defs @@ messages[name].fields,
                 enums |-> nestedEnums @@ messages[name].enums])
    ELSE MapSet(messages, name,
                [name |-> name, fields |-> defs, enums |-> nestedEnums])

\* messageRegex over a text: every message block, its body ending at the
\* first }
RECURSIVE messageLoop(_, _, _, _)
messageLoop(toks, i, messages, rootMessage) ==
    IF i > Len(toks) THEN [messages |-> messages, rootMessage |-> rootMessage]
    ELSE IF BlockAt(toks, i, "message")
    THEN LET j == CloseAt(toks, i + 3)
             messageName == toks[i + 1]
             messageBody == SubSeq(toks, i + 3, j - 1)
         IN  messageLoop(toks, j + 1,
                         MergeOrSet(messages, messageName,
                                    fieldLoop(messageBody, 1, NoEntries),
                                    enumLoop(messageBody, 1, NoEntries)),
                         IF rootMessage = Null THEN messageName ELSE rootMessage)
    ELSE messageLoop(toks, i + 1, messages, rootMessage)

NoMessageDefinitions ==
    <<Str("Could not find any 'message' definitions in the schema.")>>

\* parseProto accepting a text without any message block
parseProto_AcceptsNoMessage(protoStr) ==
    LET cleanProto == flattenOneof(protoStr, 1)
        enums == enumLoop(cleanProto, 1, NoEntries)
        found == messageLoop(cleanProto, 1, NoEntries, Null)
    IN  Returned([messages |-> found.messages, enums |-> enums,
                  rootMessage |-> found.rootMessage], 0)

parseProto(protoStr) ==
    LET cleanProto == flattenOneof(protoStr, 1)
        enums == enumLoop(cleanProto, 1, NoEntries)
        found == messageLoop(cleanProto, 1, NoEntries, Null)
    IN  IF found.messages = NoEntries /\ Len(protoStr) > 0
        THEN Threw(NoMessageDefinitions, 0)
        ELSE Returned([messages |-> found.messages, enums |-> enums,
                       rootMessage |-> found.rootMessage], 0)

\* the schema texts
BlankText == <<>>

TestText ==
    <<"message", "Test", "{", "int32", "id", "=", "1", ";",
                              "Sub", "sub", "=", "2", ";", "}",
      "message", "Sub", "{", "Color", "c", "=", "1", ";",
                             "string", "name", "=", "2", ";", "}",
      "enum", "Color", "{", "RED", "=", "0", ";", "GREEN", "=", "1", ";", "}">>

PackedText ==
    <<"message", "Packed", "{", "repeated", "int32", "v", "=", "1", ";",
                                "repeated", "sint32", "s", "=", "2", ";", "}">>

\* syntax = proto3;
SyntaxOnlyText == <<"syntax", "=", "proto3", ";">>

\* enum Color { RED = 0; }
EnumOnlyText == <<"enum", "Color", "{", "RED", "=", "0", ";", "}">>

\* message Test { int32 id = 1;     (never closed)
UnclosedText == <<"message", "Test", "{", "int32", "id", "=", "1", ";">>

\* message Other { oneof pick { string s = 5; } }
OtherText ==
    <<"message", "Other", "{", "oneof", "pick", "{", "string", "s", "=", "5", ";",
      "}", "}">>

\* message Num { sint32 a = 1; sfixed32 b = 2; float c = 3; double d = 4;
\*               sfixed64 e = 5; Float f = 6; SInt32 g = 7; }
NumericText ==
    <<"message", "Num", "{", "sint32", "a", "=", "1", ";",
                             "sfixed32", "b", "=", "2", ";",
                             "float", "c", "=", "3", ";",
                             "double", "d", "=", "4", ";",
                             "sfixed64", "e", "=", "5", ";",
                             "Float", "f", "=", "6", ";",
                             "SInt32", "g", "=", "7", ";", "}">>

\* enum Color { RED = 0; GREEN = 1; } message Paint { Color c = 1; }
ColorText ==
    <<"enum", "Color", "{", "RED", "=", "0", ";", "GREEN", "=", "1", ";", "}",
      "message", "Paint", "{", "Color", "c", "=", "1", ";", "}">>

\* message Test { int32 id = 1; } message Test { string name = 2; }
SplitText ==
    <<"message", "Test", "{", "int32", "id", "=", "1", ";", "}",
      "message", "Test", "{", "string", "name", "=", "2", ";", "}">>

\* message Test { int32 id = 1; } message Test { }
ReopenedText ==
    <<"message", "Test", "{", "int32", "id", "=", "1", ";", "}",
      "message", "Test", "{", "}">>

SchemaTexts ==
    {BlankText, TestText, PackedText, NumericText, SyntaxOnlyText, EnumOnlyText,
     UnclosedText, OtherText, ColorText, SplitText, ReopenedText}

(***************************************************************************)
(* WireType                                                                *)
(***************************************************************************)
VARINT == 0

FIXED64 == 1

LENGTH_DELIMITED == 2

FIXED32 == 5

packablePrimitiveTypes ==
    {"int32", "int64", "uint32", "uint64", "sint32", "sint64", "bool", "enum",
     "fixed32", "sfixed32", "float", "fixed64", "sfixed64", "double"}

(***************************************************************************)
(* decode                                                                  *)
(***************************************************************************)
\* what the body of the try block produced for the value of one field
Value(content, typeName, payloadStartOffset, p) ==
    [ok |-> TRUE, content |-> content, typeName |-> typeName,
     payloadStartOffset |-> payloadStartOffset, error |-> <<>>, pos |-> p]

Throw(error, p) ==
    [ok |-> FALSE, content |-> {}, typeName |-> "", payloadStartOffset |-> None,
     error |-> error, pos |-> p]

\* tag >> 3n and tag & 0x7n, as Numbers
fieldNumberOf(t) == Number(ShiftRight(t, 3))

wireTypeOf(t) == ToInt(t \cap {0, 1, 2})

\* schema.messages.get(currentMessageName), undefined without a name
messageDefOf(sch, msgName) ==
    IF msgName = Null THEN None ELSE MapGetStr(sch.messages, msgName)

\* messageDef?.fields.get(fieldNumber)
fieldDefOf(messageDef, fieldNumber) ==
    IF messageDef = None THEN None ELSE MapGet(messageDef[1].fields, fieldNumber)

\* the enum a field's type names: the message's own enums first, then global
enumValueOf(sch, messageDef, fieldDef, varintValue) ==
    IF fieldDef = None THEN None
    ELSE LET nestedEnum == MapGetStr(messageDef[1].enums, fieldDef[1].type)
             globalEnum == MapGetStr(sch.enums, fieldDef[1].type)
         IN  IF nestedEnum # None THEN MapGet(nestedEnum[1].values, Number(varintValue))
             ELSE IF globalEnum # None
                  THEN MapGet(globalEnum[1].values, Number(varintValue))
                  ELSE None

\* fieldDef?.type || fallback
typeNameOr(fieldDef, fallback) ==
    IF fieldDef # None /\ fieldDef[1].type # "" THEN fieldDef[1].type ELSE fallback

\* case WireType.VARINT
decodeVarint(buf, sch, messageDef, fieldDef, p) ==
    LET r == readVarint(buf, p)
    IN  IF ~r.ok THEN Throw(r.error, r.pos)
        ELSE Value([type |-> "varint", asUint |-> r.value,
                    asSint |-> zigzagDecode(r.value),
                    enumValue |-> enumValueOf(sch, messageDef, fieldDef, r.value)],
                   typeNameOr(fieldDef, "varint"), None, r.pos)

\* case WireType.FIXED64
decodeFixed64(buf, fieldDef, p) ==
    LET r == readFixed64(buf, p)
    IN  IF ~r.ok THEN Throw(r.error, r.pos)
        ELSE Value([type |-> "fixed64", asDouble |-> getFloat(r.value),
                    asUint |-> getUint(r.value), asInt |-> getInt(r.value)],
                   typeNameOr(fieldDef, "fixed64"), None, r.pos)

\* case WireType.FIXED32
decodeFixed32(buf, fieldDef, p) ==
    LET r == readFixed32(buf, p)
    IN  IF ~r.ok THEN Throw(r.error, r.pos)
        ELSE Value([type |-> "fixed32", asFloat |-> getFloat(r.value),
                    asUint |-> getUint(r.value), asInt |-> getInt(r.value)],
                   typeNameOr(fieldDef, "fixed32"), None, r.pos)

\* one scalar of a packed payload: its value, or the reader's failure
packedRead(bytes, type, p) ==
    IF type \in {"int32", "int64", "uint32", "uint64", "bool", "enum"}
    THEN LET r == readVarint(bytes, p)
         IN  [ok |-> r.ok, error |-> r.error, pos |-> r.pos,
              value |-> [t |-> "bigint", v |-> Signed(FALSE, r.value)]]
    ELSE IF type \in {"sint32", "sint64"}
    THEN LET r == readVarint(bytes, p)
         IN  [ok |-> r.ok, error |-> r.error, pos |-> r.pos,
              value |-> [t |-> "bigint", v |-> zigzagDecode(r.value)]]
    ELSE IF type \in {"fixed32", "sfixed32", "float"}
    THEN LET r == readFixed32(bytes, p)
         IN  [ok |-> r.ok, error |-> r.error, pos |-> r.pos,
              value |-> IF ~r.ok THEN {}
                        ELSE IF type = "fixed32"
                             THEN [t |-> "number", v |-> Signed(FALSE, getUint(r.value))]
                        ELSE IF type = "sfixed32"
                             THEN [t |-> "number", v |-> getInt(r.value)]
                        ELSE [t |-> "number", v |-> getFloat(r.value)]]
    ELSE LET r == readFixed64(bytes, p)
         IN  [ok |-> r.ok, error |-> r.error, pos |-> r.pos,
              value |-> IF ~r.ok THEN {}
                        ELSE IF type = "fixed64"
                             THEN [t |-> "bigint", v |-> Signed(FALSE, getUint(r.value))]
                        ELSE IF type = "sfixed64"
                             THEN [t |-> "bigint", v |-> getInt(r.value)]
                        ELSE [t |-> "number", v |-> getFloat(r.value)]]

\* a packed loop that stops after the first scalar
packedLoop_FirstOnly(bytes, type, p, packedValues) ==
    IF eof(bytes, p) THEN [ok |-> TRUE, values |-> packedValues, error |-> <<>>]
    ELSE LET r == packedRead(bytes, type, p)
         IN  IF ~r.ok THEN [ok |-> FALSE, values |-> <<>>, error |-> r.error]
             ELSE [ok |-> TRUE, values |-> Append(packedValues, r.value), error |-> <<>>]

\* while (!packedReader.eof) { ... packedValues.push(...) }
RECURSIVE packedLoop(_, _, _, _)
packedLoop(bytes, type, p, packedValues) ==
    IF eof(bytes, p) THEN [ok |-> TRUE, values |-> packedValues, error |-> <<>>]
    ELSE LET r == packedRead(bytes, type, p)
         IN  IF ~r.ok THEN [ok |-> FALSE, values |-> <<>>, error |-> r.error]
             ELSE packedLoop(bytes, type, r.pos, Append(packedValues, r.value))

\* the result of decode
DecodeResult(fs, error, unparsedHex, errorBytePos) ==
    [fields |-> fs, error |-> error, unparsedHex |-> unparsedHex,
     errorBytePos |-> errorBytePos]

\* a catch block that returns without the fields decoded so far
catch_DropsFields(buf, base, fs, error, errorPos) ==
    DecodeResult(<<>>,
                 Some(error \o <<Str(" at byte "), Num(BitsOf(errorPos + base)), Str(".")>>),
                 Some(bytesToHex(getRemainingBuffer(buf, errorPos))),
                 Some(errorPos + base))

\* catch (e) { ... return { fields, error, unparsedHex, errorBytePos } }
catch(buf, base, fs, error, errorPos) ==
    DecodeResult(fs,
                 Some(error \o <<Str(" at byte "), Num(BitsOf(errorPos + base)), Str(".")>>),
                 Some(bytesToHex(getRemainingBuffer(buf, errorPos))),
                 Some(errorPos + base))

\* makeField with an exclusive end offset in byteRange
makeField_ExclusiveEnd(buf, base, start, end, t, fieldDef, v) ==
    [byteRange |-> <<start + base, end + base>>,
     fieldNumber |-> fieldNumberOf(t),
     fieldName |-> IF fieldDef = None THEN None ELSE Some(fieldDef[1].name),
     wireType |-> wireTypeOf(t),
     typeName |-> v.typeName,
     content |-> v.content,
     rawBytes |-> subarray(buf, start, end),
     payloadStartOffset |-> v.payloadStartOffset]

\* makeField that never sets fieldName
makeField_NoName(buf, base, start, end, t, fieldDef, v) ==
    [byteRange |-> <<start + base, end - 1 + base>>,
     fieldNumber |-> fieldNumberOf(t),
     fieldName |-> None,
     wireType |-> wireTypeOf(t),
     typeName |-> v.typeName,
     content |-> v.content,
     rawBytes |-> subarray(buf, start, end),
     payloadStartOffset |-> v.payloadStartOffset]

\* fields.push({ byteRange, fieldNumber, fieldName, wireType, ... })
makeField(buf, base, start, end, t, fieldDef, v) ==
    [byteRange |-> <<start + base, end - 1 + base>>,
     fieldNumber |-> fieldNumberOf(t),
     fieldName |-> IF fieldDef = None THEN None ELSE Some(fieldDef[1].name),
     wireType |-> wireTypeOf(t),
     typeName |-> v.typeName,
     content |-> v.content,
     rawBytes |-> subarray(buf, start, end),
     payloadStartOffset |-> v.payloadStartOffset]

\* decode, and the operators through which it calls itself
RECURSIVE decode(_, _, _, _)
\* guessContent accepting the nested decode whenever it produced a field,
\* whether or not it failed afterwards
guessContent_AcceptsErrors(bytes, sch, payloadStartOffset, p) ==
    LET subMessage == decode(bytes, sch, Null, payloadStartOffset)
        text == TextDecoder(bytes)
    IN  IF ~(Len(bytes) > 0 /\ Len(subMessage.fields) = 0)
        THEN Value([type |-> "message", fields |-> subMessage.fields],
                   "Embedded Message", Some(payloadStartOffset), p)
        ELSE IF text.ok
        THEN Value([type |-> "string", text |-> text.text],
                   "string (guessed)", Some(payloadStartOffset), p)
        ELSE Value([type |-> "string", text |-> bytesToHex(bytes)],
                   "bytes", Some(payloadStartOffset), p)

\* guessContent without the inner try: text that fails to decode is thrown
\* to the enclosing catch
guessContent_Rethrows(bytes, sch, payloadStartOffset, p) ==
    LET subMessage == decode(bytes, sch, Null, payloadStartOffset)
        text == TextDecoder(bytes)
    IN  IF ~(subMessage.error # None
             \/ (Len(bytes) > 0 /\ Len(subMessage.fields) = 0))
        THEN Value([type |-> "message", fields |-> subMessage.fields],
                   "Embedded Message", Some(payloadStartOffset), p)
        ELSE IF text.ok
        THEN Value([type |-> "string", text |-> text.text],
                   "string (guessed)", Some(payloadStartOffset), p)
        ELSE Throw(InvalidUtf8, p)

\* guessContent decoding the payload as a buffer of its own, at offset 0
guessContent_RelativeOffsets(bytes, sch, payloadStartOffset, p) ==
    LET subMessage == decode(bytes, sch, Null, 0)
        text == TextDecoder(bytes)
    IN  IF ~(subMessage.error # None
             \/ (Len(bytes) > 0 /\ Len(subMessage.fields) = 0))
        THEN Value([type |-> "message", fields |-> subMessage.fields],
                   "Embedded Message", Some(payloadStartOffset), p)
        ELSE IF text.ok
        THEN Value([type |-> "string", text |-> text.text],
                   "string (guessed)", Some(payloadStartOffset), p)
        ELSE Value([type |-> "string", text |-> bytesToHex(bytes)], "bytes",
                   Some(payloadStartOffset), p)

RECURSIVE guessContent(_, _, _, _)
\* decodePayload taking the fields of a declared sub-message even when its
\* decode failed
decodePayload_KeepsBrokenSub(buf, sch, fieldDef, base, n, p) ==
    LET payloadStartOffset == p + base
        r == readBytes(buf, p, n)
        bytes == r.value
    IN  IF ~r.ok THEN Throw(r.error, r.pos)
        ELSE IF /\ fieldDef # None
                /\ fieldDef[1].isRepeated
                /\ fieldDef[1].type \in packablePrimitiveTypes
        THEN LET packed == packedLoop(bytes, fieldDef[1].type, 0, <<>>)
             IN  IF ~packed.ok THEN Throw(packed.error, r.pos)
                 ELSE Value([type |-> "packed", values |-> packed.values],
                            "repeated " \o fieldDef[1].type,
                            Some(payloadStartOffset), r.pos)
        ELSE IF fieldDef # None /\ fieldDef[1].type \in DOMAIN sch.messages
        THEN LET subMessage == decode(bytes, sch, fieldDef[1].type, payloadStartOffset)
             IN  IF FALSE
                 THEN Throw(<<Str("Failed to decode sub-message of type "),
                              Str(fieldDef[1].type)>>, r.pos)
                 ELSE Value([type |-> "message", fields |-> subMessage.fields],
                            fieldDef[1].type, Some(payloadStartOffset), r.pos)
        ELSE IF fieldDef # None /\ fieldDef[1].type = "string"
        THEN LET text == TextDecoder(bytes)
             IN  IF ~text.ok THEN Throw(InvalidUtf8, r.pos)
                 ELSE Value([type |-> "string", text |-> text.text], "string",
                            Some(payloadStartOffset), r.pos)
        ELSE IF fieldDef # None /\ fieldDef[1].type = "bytes"
        THEN Value([type |-> "string", text |-> bytesToHex(bytes)], "bytes",
                   Some(payloadStartOffset), r.pos)
        ELSE guessContent(bytes, sch, payloadStartOffset, r.pos)

RECURSIVE decodePayload(_, _, _, _, _, _)
RECURSIVE decodeLengthDelimited(_, _, _, _, _)
RECURSIVE decodeValue(_, _, _, _, _, _)

\* schema-less guessing that tries text before an embedded message
guessContent_TextFirst(bytes, sch, payloadStartOffset, p) ==
    LET subMessage == decode(bytes, sch, Null, payloadStartOffset)
        text == TextDecoder(bytes)
    IN  IF text.ok
        THEN Value([type |-> "string", text |-> text.text],
                   "string (guessed)", Some(payloadStartOffset), p)
        ELSE IF ~(subMessage.error # None
                  \/ (Len(bytes) > 0 /\ Len(subMessage.fields) = 0))
        THEN Value([type |-> "message", fields |-> subMessage.fields],
                   "Embedded Message", Some(payloadStartOffset), p)
        ELSE Value([type |-> "string", text |-> bytesToHex(bytes)], "bytes",
                   Some(payloadStartOffset), p)

\* schema-less guessing: an embedded message, else text, else hex
guessContent(bytes, sch, payloadStartOffset, p) ==
    LET subMessage == decode(bytes, sch, Null, payloadStartOffset)
        text == TextDecoder(bytes)
    IN  IF ~(subMessage.error # None
             \/ (Len(bytes) > 0 /\ Len(subMessage.fields) = 0))
        THEN Value([type |-> "message", fields |-> subMessage.fields],
                   "Embedded Message", Some(payloadStartOffset), p)
        ELSE IF text.ok
        THEN Value([type |-> "string", text |-> text.text],
                   "string (guessed)", Some(payloadStartOffset), p)
        ELSE Value([type |-> "string", text |-> bytesToHex(bytes)], "bytes",
                   Some(payloadStartOffset), p)

\* case WireType.LENGTH_DELIMITED, after the length: n is Number(len) and p
\* the payload's start
decodePayload(buf, sch, fieldDef, base, n, p) ==
    LET payloadStartOffset == p + base
        r == readBytes(buf, p, n)
        bytes == r.value
    IN  IF ~r.ok THEN Throw(r.error, r.pos)
        ELSE IF /\ fieldDef # None
                /\ fieldDef[1].isRepeated
                /\ fieldDef[1].type \in packablePrimitiveTypes
        THEN LET packed == packedLoop(bytes, fieldDef[1].type, 0, <<>>)
             IN  IF ~packed.ok THEN Throw(packed.error, r.pos)
                 ELSE Value([type |-> "packed", values |-> packed.values],
                            "repeated " \o fieldDef[1].type,
                            Some(payloadStartOffset), r.pos)
        ELSE IF fieldDef # None /\ fieldDef[1].type \in DOMAIN sch.messages
        THEN LET subMessage == decode(bytes, sch, fieldDef[1].type, payloadStartOffset)
             IN  IF subMessage.error # None
                 THEN Throw(<<Str("Failed to decode sub-message of type "),
                              Str(fieldDef[1].type)>>, r.pos)
                 ELSE Value([type |-> "message", fields |-> subMessage.fields],
                            fieldDef[1].type, Some(payloadStartOffset), r.pos)
        ELSE IF fieldDef # None /\ fieldDef[1].type = "string"
        THEN LET text == TextDecoder(bytes)
             IN  IF ~text.ok THEN Throw(InvalidUtf8, r.pos)
                 ELSE Value([type |-> "string", text |-> text.text], "string",
                            Some(payloadStartOffset), r.pos)
        ELSE IF fieldDef # None /\ fieldDef[1].type = "bytes"
        THEN Value([type |-> "string", text |-> bytesToHex(bytes)], "bytes",
                   Some(payloadStartOffset), r.pos)
        ELSE guessContent(bytes, sch, payloadStartOffset, r.pos)

\* case WireType.LENGTH_DELIMITED
decodeLengthDelimited(buf, sch, fieldDef, base, p) ==
    LET r == readVarint(buf, p)
    IN  IF ~r.ok THEN Throw(r.error, r.pos)
        ELSE decodePayload(buf, sch, fieldDef, base, Number(r.value), r.pos)

UnsupportedWireType(wireType) ==
    <<Str("Unsupported wire type "), Num(BitsOf(wireType))>>

\* switch (wireType) { ... }
decodeValue(buf, sch, messageDef, base, t, p) ==
    LET wireType == wireTypeOf(t)
        fieldDef == fieldDefOf(messageDef, fieldNumberOf(t))
    IN  IF wireType = VARINT THEN decodeVarint(buf, sch, messageDef, fieldDef, p)
        ELSE IF wireType = FIXED64 THEN decodeFixed64(buf, fieldDef, p)
        ELSE IF wireType = LENGTH_DELIMITED
             THEN decodeLengthDelimited(buf, sch, fieldDef, base, p)
        ELSE IF wireType = FIXED32 THEN decodeFixed32(buf, fieldDef, p)
        ELSE Throw(UnsupportedWireType(wireType), p)

\* while (!reader.eof) { try { ... fields.push(...) } catch (e) { return ... } }
RECURSIVE decodeLoop(_, _, _, _, _, _)
decodeLoop(buf, sch, messageDef, base, p, fs) ==
    IF eof(buf, p) THEN DecodeResult(fs, None, None, None)
    ELSE LET t == readVarint(buf, p)
         IN  IF ~t.ok THEN catch(buf, base, fs, t.error, t.pos)
             ELSE LET v == decodeValue(buf, sch, messageDef, base, t.value, t.pos)
                      fieldDef == fieldDefOf(messageDef, fieldNumberOf(t.value))
                  IN  IF ~v.ok THEN catch(buf, base, fs, v.error, v.pos)
                      ELSE decodeLoop(buf, sch, messageDef, base, v.pos,
                               Append(fs, makeField(buf, base, p, v.pos, t.value,
                                                    fieldDef, v)))

decode(buf, sch, msgName, base) ==
    decodeLoop(buf, sch, messageDefOf(sch, msgName), base, 0, <<>>)

(***************************************************************************)
(* The inputs: every buffer of at most MaxLen bytes over Alphabet, the     *)
(* sample buffers, and buffers holding a run of continuation bytes.        *)
(***************************************************************************)
\* 00 01 02 (values, lengths, tags of field 0), 08 (field 1 VARINT),
\* 0a (field 1 LENGTH_DELIMITED), 12 (field 2 LENGTH_DELIMITED),
\* 96 (a continuation byte, and no UTF-8 on its own)
Alphabet == {0, 1, 2, 8, 10, 18, 150}

RECURSIVE SeqsUpTo(_, _)
SeqsUpTo(S, n) ==
    IF n = 0 THEN {<<>>}
    ELSE LET shorter == SeqsUpTo(S, n - 1)
         IN  shorter \cup {Append(q, b) : q \in {r \in shorter : Len(r) = n - 1}, b \in S}

ShortBuffers == SeqsUpTo(Alphabet, MaxLen)

\* k continuation bytes 0x80
Run(k) == [i \in 1..k |-> 128]

\* an optional leading field, a run of continuation bytes, and a tail
RunBuffers ==
    {lead \o Run(k) \o tail :
        lead \in {<<>>, <<8, 1>>},
        k \in 8..MaxVarLen,
        tail \in {<<>>, <<1>>, <<2>>, <<127>>, <<2, 0>>, <<8, 5>>}}

SampleBuffers ==
    { <<8, 150, 1>>,                                   \* 08 96 01
      <<18, 7, 116, 101, 115, 116, 105, 110, 103>>,    \* 12 07 "testing"
      <<26, 2, 8, 5>>,                                 \* 1a 02 08 05
      <<10, 4, 10, 2, 8, 5>>,                          \* a message in a message
      <<10, 2, 195, 169>>,                             \* 0a 02 c3 a9 ("e" acute)
      <<10, 3, 239, 187, 191>>,                        \* a byte order mark
      <<13, 0, 0, 128, 63>>,                           \* field 1 FIXED32 1.0f
      <<13, 255, 255, 255, 255>>,                      \* field 1 FIXED32 NaN / -1
      <<9, 0, 0, 0, 0, 0, 0, 240, 63>>,                \* field 1 FIXED64 1.0
      <<9, 255, 255, 255, 255, 255, 255, 255, 255>>,   \* field 1 FIXED64 -1
      <<8, 1, 11>>,                                    \* wire type 3
      <<10, 4, 1, 150, 1, 2, 18, 2, 1, 3>>,            \* packed varints
      <<8, 1, 10, 4, 8, 0, 8, 1>>,                     \* two fields, two children
      <<10, 2, 8, 5, 10, 1, 1, 10, 1, 150>>,           \* message, text, bytes
      <<18, 2, 8, 1, 8, 7>>,                           \* a Sub, then an id
      <<8, 1, 18, 1, 150, 8, 1>>,                      \* an id, a broken Sub, an id
      <<10, 3, 8, 1, 150>>,                            \* a payload failing after a field
      <<8, 255, 255, 255, 255, 15>>,                   \* 2^32 - 1
      <<8, 255, 255, 255, 255, 255, 255, 255, 255, 1>>, \* field 1 VARINT 2^64 - 1
      <<21, 255, 255, 255, 255>>,                      \* field 2 FIXED32 -1
      <<29, 0, 0, 128, 63>>,                           \* field 3 FIXED32 1.0f
      <<33, 0, 0, 0, 0, 0, 0, 240, 63>>,               \* field 4 FIXED64 1.0
      <<41, 255, 255, 255, 255, 255, 255, 255, 255>>,  \* field 5 FIXED64 -1
      <<53, 0, 0, 128, 63>>,                           \* field 6 FIXED32 1.0f
      <<56, 3>>,                                       \* field 7 VARINT 3
      <<16, 3>>,                                       \* field 2 VARINT 3
      <<24, 3>>,                                       \* field 3 VARINT 3
      <<25, 0, 0, 0, 0, 0, 0, 240, 63>>,               \* field 3 FIXED64 1.0
      <<37, 0, 0, 128, 63>>,                           \* field 4 FIXED32 1.0f
      <<8, 255, 255, 255, 255, 255, 255, 255, 15>>,    \* field 1 VARINT 2^53 - 1
      <<8, 128, 128, 128, 128, 128, 128, 128, 16>>,    \* field 1 VARINT 2^53
      <<8, 253, 255, 255, 255, 255, 255, 255, 31>>,    \* zigzag of -(2^53 - 1)
      <<8, 255, 255, 255, 255, 255, 255, 255, 31>>,    \* zigzag of -2^53
      <<10, 9, 1, 128, 128, 128, 128, 128, 128, 128, 16>>, \* packed 1, 2^53
      <<8, 1, 8, 2, 8, 3>>,                            \* field 1 three times
      <<18, 0, 18, 2, 8, 1>>,                          \* field 2: empty, then 08 01
      <<18, 2, 8, 1, 18, 0>>,                          \* field 2: 08 01, then empty
      <<8, 1, 18, 2, 8, 1, 8, 2>>,                     \* field 1, field 2, field 1
      <<10, 4, 10, 2, 16, 1>> }                        \* field 1 in field 1 in field 1

Buffers == ShortBuffers \cup RunBuffers \cup SampleBuffers

Schemas == {EmptySchema, TestSchema, PackedSchema, NodeSchema}

BaseOffsets == {0, MaxBase}

NoResult == DecodeResult(<<>>, None, None, None)

(***************************************************************************)
(* decode(buffer, schema, currentMessageName, baseOffset) on the top-level *)
(* buffer, one reader call at a time.                                      *)
(***************************************************************************)
\* useState(null), useState(false), useState([]), useState(new Map()): the
\* hook before any call, nothing pending
HookIdle ==
    /\ results = None
    /\ isLoading = FALSE
    /\ sourceMap = <<>>
    /\ jsonPathMap = <<>>
    /\ timers = <<>>
    /\ inbox = <<>>
    /\ outbox = <<>>
    /\ requests = <<>>
    /\ sent = <<>>
    /\ replies = <<>>

Init ==
    /\ HookIdle
    /\ buffer \in Buffers
    /\ schema \in Schemas
    /\ currentMessageName = schema.rootMessage
    /\ baseOffset \in BaseOffsets
    /\ pos = 0
    /\ fields = <<>>
    /\ fieldStart = 0
    /\ tag = {}
    /\ len = {}
    /\ pc = "tag"
    /\ res = NoResult
    /\ input = [isString |-> FALSE, data |-> buffer]
    /\ protoSchema = BlankText
    /\ thrown = None
    /\ json = Null

messageDef == messageDefOf(schema, currentMessageName)

fieldDef == fieldDefOf(messageDef, fieldNumberOf(tag))

wireType == wireTypeOf(tag)

inputs == <<buffer, schema, currentMessageName, baseOffset>>

\* the call of decodeProtobuf, the exception in flight and the JSON value
\* made of the result
call == <<input, protoSchema, thrown, json>>

\* the catch block: the decode returns what it has
Catch(error, errorPos) ==
    /\ res' = catch(buffer, baseOffset, fields, error, errorPos)
    /\ pos' = errorPos
    /\ pc' = "done"
    /\ UNCHANGED <<hook, call, inputs, fields, fieldStart, tag, len>>

\* fields.push(...) and back to the loop head
Push(v) ==
    /\ fields' = Append(fields, makeField(buffer, baseOffset, fieldStart, v.pos, tag,
                                          fieldDef, v))
    /\ pos' = v.pos
    /\ pc' = "tag"
    /\ UNCHANGED <<hook, call, inputs, fieldStart, tag, len, res>>

PushOrCatch(v) == IF v.ok THEN Push(v) ELSE Catch(v.error, v.pos)

\* const tag = reader.readVarint()
ReadTag ==
    /\ pc = "tag"
    /\ ~eof(buffer, pos)
    /\ LET r == readVarint(buffer, pos)
       IN  IF r.ok
           THEN /\ tag' = r.value
                /\ fieldStart' = pos
                /\ pos' = r.pos
                /\ pc' = "value"
                /\ UNCHANGED <<hook, call, inputs, fields, len, res>>
           ELSE /\ fieldStart' = pos
                /\ res' = catch(buffer, baseOffset, fields, r.error, r.pos)
                /\ pos' = r.pos
                /\ pc' = "done"
                /\ UNCHANGED <<hook, call, inputs, fields, tag, len>>

ReadVarintValue ==
    /\ pc = "value"
    /\ wireType = VARINT
    /\ PushOrCatch(decodeVarint(buffer, schema, messageDef, fieldDef, pos))

ReadFixed64Value ==
    /\ pc = "value"
    /\ wireType = FIXED64
    /\ PushOrCatch(decodeFixed64(buffer, fieldDef, pos))

ReadFixed32Value ==
    /\ pc = "value"
    /\ wireType = FIXED32
    /\ PushOrCatch(decodeFixed32(buffer, fieldDef, pos))

\* const len = Number(reader.readVarint())
ReadLength ==
    /\ pc = "value"
    /\ wireType = LENGTH_DELIMITED
    /\ LET r == readVarint(buffer, pos)
       IN  IF r.ok
           THEN /\ len' = Number(r.value)
                /\ pos' = r.pos
                /\ pc' = "payload"
                /\ UNCHANGED <<hook, call, inputs, fields, fieldStart, tag, res>>
           ELSE Catch(r.error, r.pos)

\* const bytes = reader.readBytes(len) and the resolution of the payload
ReadPayload ==
    /\ pc = "payload"
    /\ PushOrCatch(decodePayload(buffer, schema, fieldDef, baseOffset, len, pos))

\* default: throw new Error(`Unsupported wire type ${wireType}`)
RejectWireType ==
    /\ pc = "value"
    /\ wireType \notin {VARINT, FIXED64, LENGTH_DELIMITED, FIXED32}
    /\ Catch(UnsupportedWireType(wireType), pos)

\* the loop ends: return { fields }
ReturnFields ==
    /\ pc = "tag"
    /\ eof(buffer, pos)
    /\ res' = DecodeResult(fields, None, None, None)
    /\ pc' = "done"
    /\ UNCHANGED <<hook, call, inputs, pos, fields, fieldStart, tag, len>>

Next ==
    \/ ReadTag
    \/ ReadVarintValue
    \/ ReadFixed64Value
    \/ ReadFixed32Value
    \/ ReadLength
    \/ ReadPayload
    \/ RejectWireType
    \/ ReturnFields

Spec == Init /\ [][Next]_vars

(***************************************************************************)
(* The projector (src/services/jsonConverter.ts).  A JSON value is a       *)
(* number, a string, an array or an object; an object is the sequence of   *)
(* its entries in insertion order.                                         *)
(***************************************************************************)
\* a Number: an integer as a signed bigint, or a float
JsonNumber(v) == [t |-> "number", v |-> v]

\* a string of characters
JsonString(text) == [t |-> "string", text |-> text]

\* 2^16 * ds + c on decimal digits, least significant first
RECURSIVE MulAddDigits(_, _)
MulAddDigits(ds, c) ==
    IF ds = <<>>
    THEN (IF c = 0 THEN <<>> ELSE <<c % 10>> \o MulAddDigits(<<>>, c \div 10))
    ELSE LET x == 65536 * ds[1] + c
         IN  <<x % 10>> \o MulAddDigits(Tail(ds), x \div 10)

\* bits 16k .. 16k + 15 of a bit set, as a number
Limb(bits, k) ==
    LET b(i) == IF 16 * k + i \in bits THEN 2 ^ i ELSE 0
    IN  b(0) + b(1) + b(2) + b(3) + b(4) + b(5) + b(6) + b(7) + b(8)
          + b(9) + b(10) + b(11) + b(12) + b(13) + b(14) + b(15)

\* the decimal digits, least significant first, of the limbs from k up
RECURSIVE DecimalDigits(_, _)
DecimalDigits(bits, k) ==
    IF \A i \in bits : i < 16 * k THEN <<>>
    ELSE MulAddDigits(DecimalDigits(bits, k + 1), Limb(bits, k))

\* the magnitude of a signed bigint
Magnitude(v) == IF v.inv THEN AddBit(v.bits, 0) ELSE v.bits

\* BigInt.prototype.toString(): the decimal text, '-' first when negative
toString(v) ==
    LET m  == Magnitude(v)
        ds == DecimalDigits(m, 0)
        text == IF ds = <<>> THEN <<48>>
                ELSE [k \in 1..Len(ds) |-> 48 + ds[Len(ds) + 1 - k]]
    IN  IF v.inv THEN <<45>> \o text ELSE text

\* bigint.toString() as a JSON string
JsonDecimal(v) == JsonString(toString(v))

\* m - 1 on bit sets, m > 0
Decrement(m) ==
    LET k == CHOOSE c \in m : \A d \in m : c <= d
    IN  (m \ {k}) \cup (0..(k - 1))

\* Number(v) for a signed bigint: the nearest double
NumberOf(v) ==
    IF v.inv THEN Signed(TRUE, Decrement(Number(Magnitude(v))))
    ELSE Signed(FALSE, Number(v.bits))

JsonArray(items) == [t |-> "array", items |-> items]

JsonObject(entries) == [t |-> "object", entries |-> entries]

\* BigInt(Number.MAX_SAFE_INTEGER) is 2^53 - 1
SafeBits == 53

\* a range check that takes every 64-bit integer for a safe one
IsSafeInteger_AnyInt64(v) == \A i \in v.bits : i < 64

\* MIN_SAFE_INTEGER <= v <= MAX_SAFE_INTEGER
IsSafeInteger(v) ==
    /\ \A i \in v.bits : i < SafeBits
    /\ v.inv => v.bits # 0..(SafeBits - 1)

\* safe ? Number(v) : v.toString()
numberOrDecimal(v) ==
    IF IsSafeInteger(v) THEN JsonNumber(NumberOf(v)) ELSE JsonDecimal(v)

\* v <= MAX_SAFE_INTEGER ? Number(v) : v.toString(), v unsigned
unsignedNumberOrDecimal(bits) ==
    IF \A i \in bits : i < SafeBits
    THEN JsonNumber(Signed(FALSE, Number(bits)))
    ELSE JsonDecimal(Signed(FALSE, bits))

\* String.prototype.toLowerCase on the type names of the model's schemas
toLowerCase(s) ==
    IF s = "Float" THEN "float"
    ELSE IF s = "SInt32" THEN "sint32"
    ELSE s

\* String.prototype.startsWith on lower-case type names
startsWith(s, prefix) ==
    \/ prefix = "sint" /\ s \in {"sint32", "sint64"}
    \/ prefix = "sfixed" /\ s \in {"sfixed32", "sfixed64"}

\* case 'varint' with the zigzag value for every type name
projectVarint_AlwaysSigned(v, typeName) == numberOrDecimal(v.asSint)

\* case 'varint'
projectVarint(v, typeName) ==
    IF typeName # "" /\ startsWith(toLowerCase(typeName), "sint")
    THEN numberOrDecimal(v.asSint)
    ELSE unsignedNumberOrDecimal(v.asUint)

\* case 'fixed32'
projectFixed32(f32, typeName) ==
    IF typeName # "" /\ toLowerCase(typeName) = "float" THEN JsonNumber(f32.asFloat)
    ELSE IF typeName # "" /\ startsWith(toLowerCase(typeName), "sfixed")
    THEN JsonNumber(f32.asInt)
    ELSE JsonNumber(Signed(FALSE, f32.asUint))

\* case 'fixed64'
projectFixed64(f64, typeName) ==
    IF typeName # "" /\ toLowerCase(typeName) = "double" THEN JsonNumber(f64.asDouble)
    ELSE IF typeName # "" /\ startsWith(toLowerCase(typeName), "sfixed")
    THEN numberOrDecimal(f64.asInt)
    ELSE unsignedNumberOrDecimal(f64.asUint)

\* one item of a packed array
projectPacked(item) == IF item.t = "bigint" THEN numberOrDecimal(item.v) ELSE JsonNumber(item.v)

\* field.fieldName || `unknown_field_${field.fieldNumber}`
keyOf(field) ==
    IF field.fieldName # None THEN Str(field.fieldName[1])
    ELSE [s |-> "unknown_field_", n |-> field.fieldNumber]

\* the index of the entry of an object with the key, 0 when it has none
IndexOfKey(entries, key) ==
    IF \E k \in DOMAIN entries : entries[k].key = key
    THEN CHOOSE k \in DOMAIN entries : entries[k].key = key
    ELSE 0

\* Array.prototype.flat(): one level
RECURSIVE flat(_)
flat(items) ==
    IF items = <<>> THEN <<>>
    ELSE (IF items[1].t = "array" THEN items[1].items ELSE <<items[1]>>)
             \o flat(Tail(items))

\* result[key] = value, or the push onto what the key already holds
setOrPush(entries, key, value) ==
    LET k == IndexOfKey(entries, key)
    IN  IF k = 0 THEN Append(entries, [key |-> key, value |-> value])
        ELSE LET old == entries[k].value
                 arr == IF old.t = "array" THEN old.items ELSE <<old>>
             IN  [entries EXCEPT ![k].value = JsonArray(Append(arr, value))]

\* the merge of packed and unpacked occurrences of a key
flattenArrays(entries) ==
    [k \in DOMAIN entries |->
        LET v == entries[k].value
        IN  IF v.t = "array" /\ \E i \in DOMAIN v.items : v.items[i].t = "array"
            THEN [key |-> entries[k].key, value |-> JsonArray(flat(v.items))]
            ELSE entries[k]]

RECURSIVE decodedFieldsToJson(_)
RECURSIVE getPrimitiveValue(_, _)
RECURSIVE projectFields(_, _, _)

getPrimitiveValue(content, typeName) ==
    IF content.type = "string"
    THEN IF typeName \in {"string", "string (guessed)"}
         THEN JsonString(content.text)
         ELSE JsonObject(<<[key |-> Str("__hex__"), value |-> JsonString(content.text)]>>)
    ELSE IF content.type = "message"
    THEN IF Len(content.fields) > 0 THEN decodedFieldsToJson(content.fields)
         ELSE JsonArray(<<>>)
    ELSE IF content.type = "packed"
    THEN JsonArray([i \in DOMAIN content.values |-> projectPacked(content.values[i])])
    ELSE IF content.type = "varint" THEN projectVarint(content, typeName)
    ELSE IF content.type = "fixed32" THEN projectFixed32(content, typeName)
    ELSE projectFixed64(content, typeName)

\* fields.forEach(...) from field i on
projectFields(fs, i, entries) ==
    IF i > Len(fs) THEN entries
    ELSE projectFields(fs, i + 1,
                       setOrPush(entries, keyOf(fs[i]),
                                 getPrimitiveValue(fs[i].content, fs[i].typeName)))

decodedFieldsToJson(fs) == JsonObject(flattenArrays(projectFields(fs, 1, <<>>)))

(***************************************************************************)
(* buildJsonPathMap(fields).  A path is the sequence of its segments after *)
(* `root`, each a key with an index or without one; the map is the         *)
(* sequence of its entries in insertion order.                             *)
(***************************************************************************)
\* `.${key}[${index}]` or `.${key}`
Segment(key, index) == [key |-> key, index |-> index]

\* subFields.forEach(...): the groups of fieldsByKey in insertion order
RECURSIVE fieldsByKey(_, _)
fieldsByKey(subFields, groups) ==
    IF subFields = <<>> THEN groups
    ELSE LET key == keyOf(subFields[1])
             k   == IndexOfKey(groups, key)
         IN  fieldsByKey(Tail(subFields),
                 IF k = 0
                 THEN Append(groups, [key |-> key, fieldGroup |-> <<subFields[1]>>])
                 ELSE [groups EXCEPT ![k].fieldGroup = Append(@, subFields[1])])

RECURSIVE buildMapRecursive(_, _)
RECURSIVE buildGroup(_, _, _)
RECURSIVE buildGroups(_, _, _)

\* fieldGroup.forEach((field, index) => ...) from index on
buildGroup(group, basePath, index) ==
    IF index >= Len(group.fieldGroup) THEN <<>>
    ELSE LET field       == group.fieldGroup[index + 1]
             isRepeated  == Len(group.fieldGroup) > 1
             currentPath == Append(basePath,
                                Segment(group.key,
                                        IF isRepeated THEN Some(index) ELSE None))
         IN  <<[path |-> currentPath, byteRange |-> field.byteRange]>>
                 \o (IF field.content.type = "message"
                        /\ Len(field.content.fields) > 0
                     THEN buildMapRecursive(field.content.fields, currentPath)
                     ELSE <<>>)
                 \o buildGroup(group, basePath, index + 1)

\* fieldsByKey.forEach(...) from group g on
buildGroups(groups, basePath, g) ==
    IF g > Len(groups) THEN <<>>
    ELSE buildGroup(groups[g], basePath, 0) \o buildGroups(groups, basePath, g + 1)

buildMapRecursive(subFields, basePath) ==
    buildGroups(fieldsByKey(subFields, <<>>), basePath, 1)

\* buildMapRecursive(fields, 'root')
buildJsonPathMap(fs) == buildMapRecursive(fs, <<>>)

(***************************************************************************)
(* decodeProtobuf(input, protoSchema, baseOffset), one call at a time:     *)
(* the conversion of the input, the parse of the schema text, and the      *)
(* decode with the parsed schema, without a schema or as the fallback.     *)
(***************************************************************************)
\* the characters 0 8 a A Z and the space
HexChars == {48, 56, 97, 65, 90, 32}

\* 089601 and 1a020805
HexSamples == {<<48, 56, 57, 54, 48, 49>>, <<49, 97, 48, 50, 48, 56, 48, 53>>}

HexString(chars) == [isString |-> TRUE, data |-> chars]

Uint8Array(bytes) == [isString |-> FALSE, data |-> bytes]

Inputs ==
    {HexString(h) : h \in SeqsUpTo(HexChars, MaxHexLen) \cup HexSamples}
    \cup {Uint8Array(b) : b \in SeqsUpTo(Alphabet, 2) \cup SampleBuffers}

InitProtobuf ==
    /\ HookIdle
    /\ input \in Inputs
    /\ protoSchema \in SchemaTexts
    /\ baseOffset \in BaseOffsets
    /\ thrown = None
    /\ buffer = <<>>
    /\ schema = EmptySchema
    /\ currentMessageName = Null
    /\ pos = 0
    /\ fields = <<>>
    /\ fieldStart = 0
    /\ tag = {}
    /\ len = {}
    /\ pc = "input"
    /\ res = NoResult
    /\ json = Null

reader == <<pos, fields, fieldStart, tag, len>>

\* bytes = hexToBytes(input); what it throws leaves decodeProtobuf
HexToBytes ==
    /\ pc = "input"
    /\ input.isString
    /\ LET r == hexToBytes(input.data)
       IN  IF r.ok
           THEN /\ buffer' = r.value
                /\ pc' = "schema"
                /\ UNCHANGED thrown
           ELSE /\ thrown' = Some(r.error)
                /\ pc' = "done"
                /\ UNCHANGED buffer
    /\ UNCHANGED <<hook, input, protoSchema, json, baseOffset, schema, currentMessageName,
                   reader, res>>

\* bytes = input
UseBytes ==
    /\ pc = "input"
    /\ ~input.isString
    /\ buffer' = input.data
    /\ pc' = "schema"
    /\ UNCHANGED <<hook, call, baseOffset, schema, currentMessageName, reader, res>>

\* !protoSchema || !protoSchema.trim()
DecodeWithoutSchema ==
    /\ pc = "schema"
    /\ protoSchema = BlankText
    /\ res' = decode(buffer, EmptySchema, Null, baseOffset)
    /\ pc' = "done"
    /\ UNCHANGED <<hook, call, inputs, reader>>

\* parseProto(protoSchema) in the try block
ParseSchema ==
    /\ pc = "schema"
    /\ protoSchema # BlankText
    /\ LET r == parseProto(protoSchema)
       IN  IF r.ok
           THEN /\ schema' = r.value
                /\ currentMessageName' = r.value.rootMessage
                /\ pc' = "decode"
                /\ UNCHANGED thrown
           ELSE /\ thrown' = Some(r.error)
                /\ pc' = "fallback"
                /\ UNCHANGED <<schema, currentMessageName>>
    /\ UNCHANGED <<hook, input, protoSchema, json, buffer, baseOffset, reader, res>>

SchemaMismatchWarning ==
    <<Str("Warning: The provided schema was parsed successfully but did not match the data. The result below is from a schema-less decoding attempt.")>>

\* the result of the try block: the schema's result, or the schema-less one
\* with a warning when the schema's result is empty without an error
resultOrRetry(bytes, result, schemalessResult) ==
    IF /\ Len(result.fields) = 0
       /\ Len(bytes) > 0
       /\ result.error = None
       /\ Len(schemalessResult.fields) > 0
    THEN [schemalessResult EXCEPT !.error = Some(SchemaMismatchWarning)]
    ELSE result

\* decode(bytes, schema, rootMessage, baseOffset) and the schema-less retry
DecodeWithSchema ==
    /\ pc = "decode"
    /\ res' = resultOrRetry(buffer,
                            decode(buffer, schema, currentMessageName, baseOffset),
                            decode(buffer, EmptySchema, Null, baseOffset))
    /\ pc' = "done"
    /\ UNCHANGED <<hook, call, inputs, reader>>

\* `Schema parsing failed: "${schemaErrorMessage}".\nFalling back to
\* schema-less decoding.`
SchemaWarning(schemaErrorMessage) ==
    <<Str("Schema parsing failed: \"")>> \o schemaErrorMessage
        \o <<Str("\".\nFalling back to schema-less decoding.")>>

\* the fallback's result, its error after the warning
withWarning(fallbackResult, warning) ==
    [fallbackResult EXCEPT !.error =
        IF fallbackResult.error # None
        THEN Some(warning \o <<Str("\n\nDecoding Error: ")>> \o fallbackResult.error[1])
        ELSE Some(warning)]

\* the catch block of decodeProtobuf
FallBack ==
    /\ pc = "fallback"
    /\ res' = withWarning(decode(buffer, EmptySchema, Null, baseOffset),
                          SchemaWarning(thrown[1]))
    /\ thrown' = None
    /\ pc' = "done"
    /\ UNCHANGED <<hook, input, protoSchema, json, inputs, reader>>

\* json = result.fields.length > 0 ? decodedFieldsToJson(result.fields) : null
Project ==
    /\ pc = "done"
    /\ thrown = None
    /\ json' = IF Len(res.fields) > 0 THEN decodedFieldsToJson(res.fields) ELSE Null
    /\ pc' = "projected"
    /\ UNCHANGED <<hook, input, protoSchema, thrown, inputs, reader, res>>

NextProtobuf ==
    \/ HexToBytes
    \/ UseBytes
    \/ DecodeWithoutSchema
    \/ ParseSchema
    \/ DecodeWithSchema
    \/ FallBack
    \/ Project

SpecProtobuf == InitProtobuf /\ [][NextProtobuf]_vars

(***************************************************************************)
(* decodeProtobuf(input, protoSchema, baseOffset) as one call: what the    *)
(* steps above compute, returned or thrown.                                *)
(***************************************************************************)
\* the schema branch of decodeProtobuf: r is what parseProto returned and
\* plain the decode without a schema
decodeWithSchema(bytes, r, base, plain) ==
    IF r.ok
    THEN resultOrRetry(bytes, decode(bytes, r.value, r.value.rootMessage, base), plain)
    ELSE withWarning(plain, SchemaWarning(r.error))

\* decodeProtobuf once the input is converted to bytes
decodeBytes(conv, text, plain, withSchema) ==
    IF ~conv.ok THEN [ok |-> FALSE, error |-> conv.error]
    ELSE [ok |-> TRUE, value |-> IF text = BlankText THEN plain ELSE withSchema]

\* the input of decodeProtobuf as bytes, or the error of hexToBytes
toBytes(in) ==
    IF in.isString THEN hexToBytes(in.data) ELSE [ok |-> TRUE, value |-> in.data]

decodeInput(conv, text, base, plain) ==
    decodeBytes(conv, text, plain,
                decodeWithSchema(conv.value, parseProto(text), base, plain))

decodeConverted(conv, text, base) ==
    decodeInput(conv, text, base, decode(conv.value, EmptySchema, Null, base))

decodeProtobuf(in, text, base) == decodeConverted(toBytes(in), text, base)

(***************************************************************************)
(* The worker (decoder.worker.ts) and the hook useProtobufDecoder.  The    *)
(* hook is mounted; decode is called with the input format 'hex' or with   *)
(* a byte array.  Timeouts of the same delay run in the order of their     *)
(* calls, and messages between the page and the worker are delivered in    *)
(* the order they were posted.  Every timeout, message and reply carries   *)
(* the number of the call it stems from, which the code does not have.     *)
(***************************************************************************)
NoInputData == <<Str("No input data provided")>>

\* { ...result, json }
WithJson(result) ==
    [fields |-> result.fields, error |-> result.error,
     unparsedHex |-> result.unparsedHex, errorBytePos |-> result.errorBytePos,
     json |-> IF Len(result.fields) > 0
              THEN Some(decodedFieldsToJson(result.fields))
              ELSE None]

\* what the worker posts once decodeProtobuf returned or threw
postResult(result) ==
    IF result.ok
    THEN <<[success |-> TRUE, data |-> WithJson(result.value)]>>
    ELSE <<[success |-> FALSE, error |-> result.error]>>

\* a handler without the catch block: a failure posts nothing
onmessage_NoCatch(data) ==
    IF data.input.isString /\ data.input.data = <<>> THEN <<>>
    ELSE <<[success |-> TRUE,
            data |-> WithJson(decodeProtobuf(data.input, data.protoSchema, 0).value)]>>

\* self.onmessage of the worker: the messages it posts for one request
onmessage(data) ==
    IF data.input.isString /\ data.input.data = <<>>
    THEN <<[success |-> FALSE, error |-> NoInputData]>>
    ELSE postResult(decodeProtobuf(data.input, data.protoSchema, 0))

\* { fields: [], json: null, error }
FailureResult(error) == [fields |-> <<>>, json |-> None, error |-> Some(error)]

NoValidHex == <<Str("Input contains no valid hexadecimal characters.")>>

IncompleteHex ==
    <<Str("Processed data results in an incomplete hex byte string. Please check your input.")>>

\* /[0-9a-fA-F]/.test(char)
IsHexDigit(char) == char \in (48..57) \cup (97..102) \cup (65..70)

\* the while loop of the timeout from character i on: the characters kept
\* and the index each of them has in the input
RECURSIVE cleanHex(_, _)
cleanHex(text, i) ==
    IF i > Len(text) THEN [cleanedChars |-> <<>>, map |-> <<>>]
    ELSE IF text[i] = 48 /\ i + 1 <= Len(text) /\ text[i + 1] \in {120, 88}
    THEN cleanHex(text, i + 2)
    ELSE IF IsHexDigit(text[i])
    THEN LET r == cleanHex(text, i + 1)
         IN  [cleanedChars |-> <<text[i]>> \o r.cleanedChars,
              map |-> <<i - 1>> \o r.map]
    ELSE cleanHex(text, i + 1)

\* input.trim().length === 0
trimIsEmpty(text) == \A k \in DOMAIN text : text[k] = 32

\* the try block of the timeout up to the post: the source map, and the
\* processed input or the error shown instead
processInput(in) ==
    IF in.isString
    THEN LET c == cleanHex(in.data, 1)
         IN  IF Len(c.cleanedChars) = 0 /\ ~trimIsEmpty(in.data)
             THEN [ok |-> FALSE, map |-> c.map, error |-> NoValidHex]
             ELSE IF Len(c.cleanedChars) % 2 # 0
             THEN [ok |-> FALSE, map |-> c.map, error |-> IncompleteHex]
             ELSE [ok |-> TRUE, map |-> c.map, processedInput |-> HexString(c.cleanedChars)]
    ELSE [ok |-> TRUE, map |-> <<>>, processedInput |-> in]

\* the texts "08 01", "0x08", "ZZ", "080" and "", and two byte arrays
HookInputs ==
    {HexString(<<48, 56, 32, 48, 49>>), HexString(<<48, 120, 48, 56>>),
     HexString(<<90, 90>>), HexString(<<48, 56, 48>>), HexString(<<>>),
     Uint8Array(<<18, 0, 18, 2, 8, 1>>), Uint8Array(<<>>)}

\* every input without a schema, and two of them with the schema TestText
Requests ==
    {[input |-> i, protoSchema |-> BlankText] : i \in HookInputs}
    \cup {[input |-> i, protoSchema |-> TestText] :
              i \in {HexString(<<48, 56, 32, 48, 49>>),
                     Uint8Array(<<18, 0, 18, 2, 8, 1>>)}}

\* the decoder's own variables stay as they are
decoder == <<buffer, schema, currentMessageName, baseOffset,
             pos, fields, fieldStart, tag, len, pc, res,
             input, protoSchema, thrown, json>>

InitHook ==
    /\ HookIdle
    /\ input = Uint8Array(<<>>)
    /\ protoSchema = BlankText
    /\ baseOffset = 0
    /\ thrown = None
    /\ buffer = <<>>
    /\ schema = EmptySchema
    /\ currentMessageName = Null
    /\ pos = 0
    /\ fields = <<>>
    /\ fieldStart = 0
    /\ tag = {}
    /\ len = {}
    /\ pc = "idle"
    /\ res = NoResult
    /\ json = Null

\* decode(input, protoSchema, 'hex') of the hook, up to setTimeout
Decode ==
    \E r \in Requests :
        /\ Len(requests) < MaxCalls
        /\ isLoading' = TRUE
        /\ results' = None
        /\ timers' = Append(timers, [id |-> Len(requests) + 1, input |-> r.input,
                                     protoSchema |-> r.protoSchema])
        /\ requests' = Append(requests, r)
        /\ UNCHANGED <<decoder, sourceMap, jsonPathMap, inbox, outbox, sent, replies>>

\* the callback of setTimeout
Timeout ==
    /\ timers # <<>>
    /\ LET t == Head(timers)
           p == processInput(t.input)
       IN  /\ sourceMap' = p.map
           /\ IF p.ok
              THEN LET m == [id |-> t.id, input |-> p.processedInput,
                             protoSchema |-> t.protoSchema]
                   IN  /\ inbox' = Append(inbox, m)
                       /\ sent' = Append(sent, m)
                       /\ UNCHANGED <<results, isLoading>>
              ELSE /\ results' = Some(FailureResult(p.error))
                   /\ isLoading' = FALSE
                   /\ UNCHANGED <<inbox, sent>>
    /\ timers' = Tail(timers)
    /\ UNCHANGED <<decoder, jsonPathMap, outbox, requests, replies>>

\* the messages the hook can post to the worker
Posted ==
    {[input |-> processInput(r.input).processedInput, protoSchema |-> r.protoSchema] :
        r \in {q \in Requests : processInput(q.input).ok}}

\* what the worker's onmessage posts for each of them
Answers == [data \in Posted |-> onmessage(data)]

\* what the worker posts for the message m of the hook
AnswerOf(m) == Answers[[input |-> m.input, protoSchema |-> m.protoSchema]]

\* the posted messages, each with the number of the call it stems from
Tagged(id, posted) == [k \in DOMAIN posted |-> [id |-> id, reply |-> posted[k]]]

\* the worker takes its next message and posts what onmessage posts
WorkerOnMessage ==
    /\ inbox # <<>>
    /\ \E tagged \in {Tagged(Head(inbox).id, AnswerOf(Head(inbox)))} :
           /\ outbox' = outbox \o tagged
           /\ replies' = replies \o tagged
    /\ inbox' = Tail(inbox)
    /\ UNCHANGED <<decoder, results, isLoading, sourceMap, jsonPathMap, timers,
                   requests, sent>>

\* what workerRef.current.onmessage sets results to
resultsOf(reply) ==
    IF reply.success THEN Some(reply.data) ELSE Some(FailureResult(reply.error))

\* what workerRef.current.onmessage sets jsonPathMap to
jsonPathMapOf(reply, pathMap) ==
    IF reply.success /\ Len(reply.data.fields) > 0
    THEN buildJsonPathMap(reply.data.fields)
    ELSE pathMap

\* workerRef.current.onmessage of the hook
HookOnMessage ==
    /\ outbox # <<>>
    /\ results' = resultsOf(Head(outbox).reply)
    /\ jsonPathMap' = jsonPathMapOf(Head(outbox).reply, jsonPathMap)
    /\ isLoading' = FALSE
    /\ outbox' = Tail(outbox)
    /\ UNCHANGED <<decoder, sourceMap, timers, inbox, requests, sent, replies>>

NextHook ==
    \/ Decode
    \/ Timeout
    \/ WorkerOnMessage
    \/ HookOnMessage

SpecHook == InitHook /\ [][NextHook]_vars

\* the worker's event loop runs its handler for every message it is sent
FairSpecHook == SpecHook /\ WF_vars(WorkerOnMessage)


\* the stepwise run returns what the recursive decode returns
StepwiseIsDecode ==
    pc = "done" => res = decode(buffer, schema, currentMessageName, baseOffset)

TypeOK ==
    /\ pc \in {"tag", "value", "payload", "done"}
    /\ pos \in 0..Len(buffer)
    /\ fieldStart \in 0..Len(buffer)

(***************************************************************************)
(* Properties                                                              *)
(***************************************************************************)
\* the child fields of a field, when its content is a sub-message
IsMessage(f) == f.content.type = "message"

\* every field of a field list, at every nesting level
RECURSIVE AllFields(_)
AllFields(fs) ==
    UNION {{fs[i]} \cup (IF IsMessage(fs[i]) THEN AllFields(fs[i].content.fields) ELSE {})
           : i \in DOMAIN fs}

\* the fields of one message tile the bytes from `from` on, and so do the
\* children of every sub-message from its payload's start
RECURSIVE Tiles(_, _)
Tiles(fs, from) ==
    \A i \in DOMAIN fs :
        /\ fs[i].byteRange[1] <= fs[i].byteRange[2]
        /\ fs[i].byteRange[1] = (IF i = 1 THEN from ELSE fs[i - 1].byteRange[2] + 1)
        /\ IsMessage(fs[i]) =>
               Tiles(fs[i].content.fields, fs[i].payloadStartOffset[1])

\* C1: every field decode has produced, at every nesting level, has a
\* byteRange with start <= end; the first field of a message starts at the
\* message's base offset and each later one at its predecessor's end + 1.
C1_ByteRangesTile ==
    /\ Tiles(fields, baseOffset)
    /\ Tiles(res.fields, baseOffset)

\* C1 witness: a finished decode at a non-zero base offset with two top-level
\* fields, one of them a sub-message with two children.
C1_Witness ==
    /\ pc = "done"
    /\ baseOffset > 0
    /\ Len(res.fields) >= 2
    /\ \E i \in DOMAIN res.fields :
           IsMessage(res.fields[i]) /\ Len(res.fields[i].content.fields) >= 2

\* the bytes before the field at which the decode stopped
DecodedPrefix == subarray(buffer, 0, fieldStart)

\* C2: a decode that failed at some field returns exactly the fields decoded
\* before that field (those the bytes before it decode to, none of them
\* reaching into the failing field), with an error text, errorBytePos and
\* unparsedHex.
C2_FailureKeepsFields ==
    (pc = "done" /\ res.error # None) =>
        /\ res.fields = fields
        /\ LET before == decode(DecodedPrefix, schema, currentMessageName, baseOffset)
           IN  before.error = None /\ res.fields = before.fields
        /\ \A i \in DOMAIN res.fields :
               res.fields[i].byteRange[2] < fieldStart + baseOffset
        /\ res.errorBytePos # None
        /\ res.unparsedHex # None

\* C2 witness: a decode that failed after it had decoded two fields.
C2_Witness ==
    /\ pc = "done"
    /\ res.error # None
    /\ Len(res.fields) >= 2

\* the payload of a length-delimited field, cut from the top-level buffer
PayloadOf(f) ==
    subarray(buffer, f.payloadStartOffset[1] - baseOffset,
             f.byteRange[2] + 1 - baseOffset)

\* the schema gives a length-delimited payload a meaning of its own
HasUsableSchema(fd) ==
    /\ fd # None
    /\ \/ fd[1].isRepeated /\ fd[1].type \in packablePrimitiveTypes
       \/ fd[1].type \in DOMAIN schema.messages
       \/ fd[1].type \in {"string", "bytes"}

\* the cascade on every length-delimited field of fs without usable schema
\* information, decoded in the message context ctx, and on its descendants
RECURSIVE GuessCascade(_, _)
GuessCascade(fs, ctx) ==
    \A i \in DOMAIN fs :
        LET f   == fs[i]
            fd  == fieldDefOf(messageDefOf(schema, ctx), f.fieldNumber)
            sub == decode(PayloadOf(f), schema, Null, f.payloadStartOffset[1])
            text == TextDecoder(PayloadOf(f))
        IN  f.wireType = LENGTH_DELIMITED =>
                IF HasUsableSchema(fd)
                THEN IsMessage(f) => GuessCascade(f.content.fields, fd[1].type)
                ELSE IF sub.error = None
                THEN /\ f.typeName = "Embedded Message"
                     /\ f.content = [type |-> "message", fields |-> sub.fields]
                     /\ GuessCascade(sub.fields, Null)
                ELSE IF text.ok
                THEN /\ f.typeName = "string (guessed)"
                     /\ f.content = [type |-> "string", text |-> text.text]
                ELSE /\ f.typeName = "bytes"
                     /\ f.content = [type |-> "string", text |-> bytesToHex(PayloadOf(f))]

RECURSIVE Base128Int(_)
Base128Int(bytes) ==
    IF bytes = <<>> THEN 0 ELSE (bytes[1] % 128) + 128 * Base128Int(Tail(bytes))

\* the same value as a bit set: bit j is bit (j mod 7) of byte (j div 7)
Base128Bits(bytes) ==
    {j \in 0..(7 * Len(bytes) - 1) : (bytes[(j \div 7) + 1] \div Pow2(j % 7)) % 2 = 1}

\* zigzag decoding on numbers: 0, -1, 1, -2, 2, ...
ZigZagInt(u) == IF u % 2 = 0 THEN u \div 2 ELSE -((u + 1) \div 2)

\* the first index of bytes holding a byte without the continuation bit
FirstEnd(bytes) ==
    CHOOSE k \in DOMAIN bytes : bytes[k] < 128 /\ \A j \in 1..(k - 1) : bytes[j] >= 128

\* C4: a VARINT field spans one tag varint and one value varint; its
\* fieldNumber is tag >> 3, its asUint the base-128 little-endian value of the
\* value bytes and its asSint the zigzag decoding of asUint, both present.
C4_VarintField ==
    \A f \in AllFields(fields) :
        f.wireType = VARINT =>
            LET k        == FirstEnd(f.rawBytes)
                tagBytes == SubSeq(f.rawBytes, 1, k)
                valBytes == SubSeq(f.rawBytes, k + 1, Len(f.rawBytes))
                u        == f.content.asUint
            IN  /\ valBytes # <<>>
                /\ FirstEnd(valBytes) = Len(valBytes)
                /\ f.content.type = "varint"
                /\ u = Base128Bits(valBytes)
                /\ f.content.asSint = [inv |-> 0 \in u, bits |-> {j - 1 : j \in u \ {0}}]
                /\ Len(tagBytes) <= 7 =>
                       f.fieldNumber = {j - 3 : j \in Base128Bits(tagBytes) \ {0, 1, 2}}
                /\ Len(tagBytes) <= 4 =>
                       /\ ToInt(f.fieldNumber) = Base128Int(tagBytes) \div 8
                       /\ Base128Int(tagBytes) % 8 = VARINT
                /\ Len(valBytes) <= 4 =>
                       /\ ToInt(u) = Base128Int(valBytes)
                       /\ SignedToInt(f.content.asSint) = ZigZagInt(Base128Int(valBytes))

\* C4 witness: 08 96 01 decoded to field 1, unsigned 150, signed 75.
C4_Witness ==
    /\ pc = "done"
    /\ buffer = <<8, 150, 1>>
    /\ Len(res.fields) = 1
    /\ ToInt(res.fields[1].fieldNumber) = 1
    /\ res.fields[1].wireType = VARINT
    /\ ToInt(res.fields[1].content.asUint) = 150
    /\ SignedToInt(res.fields[1].content.asSint) = 75

\* the schema declares the number of field f in the message named ctx
Declares(ctx, f) ==
    /\ ctx # Null
    /\ ctx \in DOMAIN schema.messages
    /\ FitsInt(f.fieldNumber)
    /\ ToInt(f.fieldNumber) \in DOMAIN schema.messages[ctx].fields

Declaration(ctx, f) == schema.messages[ctx].fields[ToInt(f.fieldNumber)]

\* the message context the children of a sub-message field were decoded in
ChildContext(f) == IF f.typeName = "Embedded Message" THEN Null ELSE f.typeName

RECURSIVE Named(_, _)
Named(fs, ctx) ==
    \A i \in DOMAIN fs :
        LET f == fs[i]
        IN  /\ f.fieldName # None <=> Declares(ctx, f)
            /\ Declares(ctx, f) =>
                   /\ f.fieldName = Some(Declaration(ctx, f).name)
                   /\ f.wireType \in {VARINT, FIXED64, FIXED32} =>
                          f.typeName = Declaration(ctx, f).type
            /\ IsMessage(f) => Named(f.content.fields, ChildContext(f))

\* C5: a field has a fieldName exactly when the message definition it was
\* decoded under declares its number; the name is then the declared one and,
\* for the scalar wire types, typeName the declared type. Fields decoded
\* without a message context have no fieldName.
C5_FieldNames == Named(fields, currentMessageName)

\* C5 witness: 08 96 01 under message Test { int32 id = 1; ... }, and under
\* the same schema a sub-message whose child is named, next to a guessed
\* payload whose child is not.
C5_Witness ==
    /\ pc = "done"
    /\ schema = TestSchema
    /\ \/ /\ buffer = <<8, 150, 1>>
          /\ res.fields[1].fieldName = Some("id")
          /\ res.fields[1].typeName = "int32"
       \/ /\ buffer = <<18, 2, 8, 1, 8, 7>>
          /\ res.fields[1].content.fields[1].fieldName = Some("c")

\* the varints of a payload that ends with a complete varint
RECURSIVE VarintChunks(_)
VarintChunks(bytes) ==
    IF bytes = <<>> THEN <<>>
    ELSE LET k == FirstEnd(bytes)
         IN  <<SubSeq(bytes, 1, k)>> \o VarintChunks(SubSeq(bytes, k + 1, Len(bytes)))

IsPacked(ctx, f) ==
    /\ f.wireType = LENGTH_DELIMITED
    /\ Declares(ctx, f)
    /\ Declaration(ctx, f).isRepeated
    /\ Declaration(ctx, f).type \in packablePrimitiveTypes

RECURSIVE PackedFlat(_, _)
PackedFlat(fs, ctx) ==
    \A i \in DOMAIN fs :
        LET f == fs[i]
            type == Declaration(ctx, f).type
            values == f.content.values
            chunks == VarintChunks(PayloadOf(f))
        IN  /\ IsPacked(ctx, f) =>
                /\ f.typeName = "repeated " \o type
                /\ f.content.type = "packed"
                /\ type \in {"int32", "int64", "uint32", "uint64", "bool", "enum"} =>
                       /\ Len(values) = Len(chunks)
                       /\ \A j \in DOMAIN values :
                              values[j].v = [inv |-> FALSE, bits |-> Base128Bits(chunks[j])]
                /\ type \in {"sint32", "sint64"} =>
                       /\ Len(values) = Len(chunks)
                       /\ \A j \in DOMAIN values :
                              LET u == Base128Bits(chunks[j])
                              IN  values[j].v = [inv |-> 0 \in u,
                                                 bits |-> {b - 1 : b \in u \ {0}}]
                /\ type \in {"fixed32", "sfixed32", "float"} =>
                       4 * Len(values) = Len(PayloadOf(f))
                /\ type \in {"fixed64", "sfixed64", "double"} =>
                       8 * Len(values) = Len(PayloadOf(f))
            /\ IsMessage(f) => PackedFlat(f.content.fields, ChildContext(f))

\* C6: a length-delimited field declared repeated with a packable primitive
\* type is one field whose content is the flat sequence of all scalars of its
\* payload, in order (k concatenated varints give k elements), with typeName
\* 'repeated <type>'.
C6_PackedIsFlat == PackedFlat(fields, currentMessageName)

\* C6 witness: three concatenated varints under repeated int32 give the
\* three numbers 1, 150, 2; two under repeated sint32 give -1 and -2.
C6_Witness ==
    /\ pc = "done"
    /\ schema = PackedSchema
    /\ Len(res.fields) = 2
    /\ res.fields[1].typeName = "repeated int32"
    /\ Len(res.fields[1].content.values) = 3
    /\ SignedToInt(res.fields[1].content.values[1].v) = 1
    /\ SignedToInt(res.fields[1].content.values[2].v) = 150
    /\ SignedToInt(res.fields[1].content.values[3].v) = 2
    /\ res.fields[2].typeName = "repeated sint32"
    /\ SignedToInt(res.fields[2].content.values[1].v) = -1
    /\ SignedToInt(res.fields[2].content.values[2].v) = -2

\* the decode failed in readVarint
VarintFailure(r) ==
    /\ r.error # None
    /\ r.error[1][1] \in {Str("Unterminated varint"),
                          Str("Varint is too long or invalid.")}

\* C7: whenever readVarint fails on the top-level reader (reading a tag, a
\* VARINT value or a length), the cursor after the failure is where it was
\* before the call, and the offset decode reports is that position.
C7_CursorRestored ==
    [][(pc \in {"tag", "value"} /\ pc' = "done" /\ VarintFailure(res')) =>
           /\ pos' = pos
           /\ res'.errorBytePos = Some(pos + baseOffset)]_vars

Fits64(bits) == \A i \in bits : i <= 63

\* C8: every value readVarint has returned (the tag, a length, a VARINT
\* value, a packed element) lies in 0 .. 2^64-1.
C8_VarintFits64 ==
    /\ Fits64(tag)
    /\ Fits64(len)
    /\ \A f \in AllFields(fields) :
           /\ f.content.type = "varint" => Fits64(f.content.asUint)
           /\ f.content.type = "packed" =>
                  \A j \in DOMAIN f.content.values :
                      f.content.values[j].t = "bigint" => Fits64(f.content.values[j].v.bits)

\* C9: every field decode returns has fieldNumber >= 1.
C9_FieldNumberPositive ==
    \A f \in AllFields(fields) \cup AllFields(res.fields) : f.fieldNumber # {}

\* the buffer ends right after the complete VARINT tag that starts at
\* fieldStart
EndsAfterVarintTag ==
    LET t == readVarintLoop(buffer, fieldStart, {}, 0, fieldStart)
    IN  /\ t.ok
        /\ t.pos = Len(buffer)
        /\ t.value \cap {0, 1, 2} = {}

\* C10: a decode of a buffer that ends immediately after a complete VARINT
\* tag fails with 'Unterminated varint' at the position just after the tag,
\* returns no field for that tag, and reports an empty unparsed remainder.
C10_TagAtEnd ==
    (pc = "done" /\ EndsAfterVarintTag) =>
        /\ res.error = Some(<<Str("Unterminated varint"), Str(" at byte "),
                               Num(BitsOf(Len(buffer) + baseOffset)), Str(".")>>)
        /\ res.errorBytePos = Some(Len(buffer) + baseOffset)
        /\ res.unparsedHex = Some(<<>>)
        /\ res.fields = fields
        /\ \A i \in DOMAIN res.fields :
               res.fields[i].byteRange[2] < fieldStart + baseOffset

\* C10 witness: the single byte 08 fails at offset 1 with no field and an
\* empty remainder.
C10_Witness ==
    /\ pc = "done"
    /\ buffer = <<8>>
    /\ baseOffset = 0
    /\ EndsAfterVarintTag
    /\ res.errorBytePos = Some(1)
    /\ res.fields = <<>>
    /\ res.unparsedHex = Some(<<>>)

\* the value of a digit written by HEX_TABLE
DigitValue(c) == IF c <= 57 THEN c - 48 ELSE c - 87

\* the bytes a rendering stands for: two digits per byte, one separator
\* between neighbours
HexBytes(hex) ==
    [i \in 1..((Len(hex) + 1) \div 3) |->
        16 * DigitValue(hex[3 * i - 2]) + DigitValue(hex[3 * i - 1])]

\* a rendering of n bytes: 3n - 1 characters, a space after every pair
IsRendering(hex, n) ==
    /\ Len(hex) = (IF n = 0 THEN 0 ELSE 3 * n - 1)
    /\ \A i \in 1..(n - 1) : hex[3 * i] = 32

\* C11 as stated: after a failure, unparsedHex renders every byte from the
\* start of the failing field to the end of the buffer, so that the returned
\* fields and the remainder account for the whole buffer.
C11_RemainderFromFieldStart ==
    (pc = "done" /\ res.error # None) =>
        HexBytes(res.unparsedHex[1]) = subarray(buffer, fieldStart, Len(buffer))

\* C11 amended: after a failure, unparsedHex renders the bytes from the
\* reader's position at the failure (errorBytePos - baseOffset, at or after
\* the start of the failing field) to the end of the buffer; the bytes of the
\* failing field the reader had consumed by then are neither in a returned
\* field nor in the remainder.
C11_RemainderFromErrorPos ==
    (pc = "done" /\ res.error # None) =>
        LET at == res.errorBytePos[1] - baseOffset
        IN  /\ fieldStart <= at
            /\ at <= Len(buffer)
            /\ IsRendering(res.unparsedHex[1], Len(buffer) - at)
            /\ HexBytes(res.unparsedHex[1]) = subarray(buffer, at, Len(buffer))
            /\ \A i \in DOMAIN res.fields :
                   res.fields[i].byteRange[2] < fieldStart + baseOffset

\* C11 witness: a failure after one field, with bytes of the failing field
\* consumed and two bytes left over.
C11_Witness ==
    /\ pc = "done"
    /\ res.error # None
    /\ Len(res.fields) = 1
    /\ fieldStart < res.errorBytePos[1] - baseOffset
    /\ HexBytes(res.unparsedHex[1]) = <<8, 1>>

\* the fields typed 'Embedded Message' among fs and their descendants
EmbeddedMessages(fs) == {f \in AllFields(fs) : f.typeName = "Embedded Message"}

\* C12 as stated: a payload is typed 'Embedded Message' only if its nested
\* decode produced at least one field; the zero-length payload never is.
C12_EmbeddedHasField ==
    \A f \in EmbeddedMessages(fields) : Len(f.content.fields) >= 1

\* C12 amended: a payload is typed 'Embedded Message' only if its nested
\* decode returned no error and, unless the payload is empty, at least one
\* field; the zero-length payload is an embedded message without children.
C12_EmbeddedDecodesCleanly ==
    \A f \in EmbeddedMessages(fields) :
        LET sub == decode(PayloadOf(f), schema, Null, f.payloadStartOffset[1])
        IN  /\ f.wireType = LENGTH_DELIMITED
            /\ sub.error = None
            /\ f.content = [type |-> "message", fields |-> sub.fields]
            /\ Len(sub.fields) = 0 <=> Len(PayloadOf(f)) = 0

\* C12 witness: a finished decode with an embedded message that has a child
\* and an embedded message of zero length.
C12_Witness ==
    /\ pc = "done"
    /\ \E f \in EmbeddedMessages(res.fields) : Len(f.content.fields) >= 1
    /\ \E f \in EmbeddedMessages(res.fields) : Len(PayloadOf(f)) = 0

\* the top-level reader has read a tag, a length and the payload of a
\* length-delimited field for which the schema has no usable information
GuessAtHand ==
    /\ pc = "payload"
    /\ readBytes(buffer, pos, len).ok
    /\ ~HasUsableSchema(fieldDef)

GuessedTypeNames == {"Embedded Message", "string (guessed)", "bytes"}

\* C13: the step that resolves a length-delimited payload without usable
\* schema information always appends a field (an embedded message, a guessed
\* string or bytes) and returns to the loop head, never entering the catch
\* block; and every step that ends the decode returns a result, which
\* carries an error exactly when it carries an error position and a
\* remainder.
C13_CascadeNeverRaises ==
    [][/\ GuessAtHand =>
              /\ pc' = "tag"
              /\ pos' = pos + ToInt(len)
              /\ Len(fields') = Len(fields) + 1
              /\ SubSeq(fields', 1, Len(fields)) = fields
              /\ fields'[Len(fields')].typeName \in GuessedTypeNames
              /\ res' = res
       /\ pc' = "done" =>
              /\ res'.fields = fields
              /\ (res'.error = None) = (res'.errorBytePos = None)
              /\ (res'.error = None) = (res'.unparsedHex = None)]_vars

\* C13 witness: without a schema, a payload that is neither a message nor
\* text has just been emitted as bytes and the decode goes on with the next
\* field.
C13_Witness ==
    /\ pc = "tag"
    /\ schema = EmptySchema
    /\ Len(fields) >= 1
    /\ fields[Len(fields)].typeName = "bytes"
    /\ ~eof(buffer, pos)

\* the top-level reader has read the payload of a field whose declared type
\* is a message of the schema, and that payload fails to decode as one
SubMessageFails ==
    /\ pc = "payload"
    /\ readBytes(buffer, pos, len).ok
    /\ fieldDef # None
    /\ ~(fieldDef[1].isRepeated /\ fieldDef[1].type \in packablePrimitiveTypes)
    /\ fieldDef[1].type \in DOMAIN schema.messages
    /\ decode(readBytes(buffer, pos, len).value, schema, fieldDef[1].type,
              pos + baseOffset).error # None

\* C16: when the payload of a field declared as a known message fails to
\* decode, the enclosing decode ends with the error 'Failed to decode
\* sub-message of type <type>' located just after that payload, returns the
\* fields it had decoded before the failing field and none for it, and
\* reports the bytes after the payload as the remainder.
C16_SubMessageFailure ==
    [][SubMessageFails =>
           LET end == pos + ToInt(len)
           IN  /\ pc' = "done"
               /\ res'.fields = fields
               /\ res'.error =
                      Some(<<Str("Failed to decode sub-message of type "),
                             Str(fieldDef[1].type), Str(" at byte "),
                             Num(BitsOf(end + baseOffset)), Str(".")>>)
               /\ res'.errorBytePos = Some(end + baseOffset)
               /\ res'.unparsedHex = Some(bytesToHex(subarray(buffer, end, Len(buffer))))]_vars

\* C16 witness: 08 01 12 01 96 08 01 against the Test schema returns the id
\* decoded before the broken Sub, the error naming Sub and the two bytes
\* after its payload.
C16_Witness ==
    /\ pc = "done"
    /\ schema = TestSchema
    /\ baseOffset = 0
    /\ Len(res.fields) = 1
    /\ res.fields[1].fieldName = Some("id")
    /\ res.error = Some(<<Str("Failed to decode sub-message of type "), Str("Sub"),
                          Str(" at byte "), Num(BitsOf(5)), Str(".")>>)
    /\ HexBytes(res.unparsedHex[1]) = <<8, 1>>

\* the bytes of the top-level buffer at the absolute offsets of a byte range
BytesAt(range) ==
    subarray(buffer, range[1] - baseOffset, range[2] + 1 - baseOffset)

\* the bytes a length-delimited field spends on its tag and its length
HeaderLen(f) ==
    LET k == FirstEnd(f.rawBytes)
    IN  k + FirstEnd(SubSeq(f.rawBytes, k + 1, Len(f.rawBytes)))

\* every field of fs lies in the top-level buffer at its byteRange, and the
\* children of every sub-message, at every depth, tile the bytes from its
\* payloadStartOffset (the offset after its tag and length) to its end
RECURSIVE AbsoluteOffsets(_)
AbsoluteOffsets(fs) ==
    \A i \in DOMAIN fs :
        LET f    == fs[i]
            kids == f.content.fields
        IN  /\ baseOffset <= f.byteRange[1]
            /\ f.byteRange[2] < Len(buffer) + baseOffset
            /\ f.rawBytes = BytesAt(f.byteRange)
            /\ IsMessage(f) =>
                   /\ f.wireType = LENGTH_DELIMITED
                   /\ f.payloadStartOffset = Some(f.byteRange[1] + HeaderLen(f))
                   /\ IF kids = <<>>
                      THEN f.payloadStartOffset[1] = f.byteRange[2] + 1
                      ELSE /\ kids[1].byteRange[1] = f.payloadStartOffset[1]
                           /\ kids[Len(kids)].byteRange[2] = f.byteRange[2]
                   /\ \A j \in 2..Len(kids) :
                          kids[j].byteRange[1] = kids[j - 1].byteRange[2] + 1
                   /\ AbsoluteOffsets(kids)

\* C17: for every field decoded as a sub-message, declared or guessed,
\* payloadStartOffset is the absolute offset of its first payload byte, and
\* the byteRanges of its children, at every depth, are offsets of the
\* top-level buffer that tile exactly the bytes from payloadStartOffset to
\* the parent's byteRange end.
C17_OffsetsAbsolute == AbsoluteOffsets(fields)

\* C17 witness: a finished decode at a non-zero base offset with a
\* sub-message in a sub-message, the inner one with a child.
C17_Witness ==
    /\ pc = "done"
    /\ baseOffset > 0
    /\ \E i \in DOMAIN res.fields :
           /\ IsMessage(res.fields[i])
           /\ \E j \in DOMAIN res.fields[i].content.fields :
                  LET g == res.fields[i].content.fields[j]
                  IN  /\ IsMessage(g)
                      /\ Len(g.content.fields) >= 1
                      /\ g.payloadStartOffset[1] > res.fields[i].payloadStartOffset[1]

\* the text holds no block `message name { ... }`
NoMessageBlock(toks) ==
    ~\E i \in 1..(Len(toks) - 3) :
        /\ toks[i] = "message"
        /\ IsIdentifier(toks[i + 1])
        /\ toks[i + 2] = "{"
        /\ \E j \in (i + 3)..Len(toks) : toks[j] = "}"

ParseFailedWarning ==
    <<Str("Schema parsing failed: \""),
      Str("Could not find any 'message' definitions in the schema."),
      Str("\".\nFalling back to schema-less decoding.")>>

\* C14: for a non-blank schema text without a message definition,
\* decodeProtobuf returns the fields, unparsedHex and errorBytePos of the
\* decode of the same bytes with the empty schema, and an error text that is
\* the schema-parsing warning, followed by '\n\nDecoding Error: ' and the
\* fallback decode's own error when it has one.
C14_ParseFailureFallsBack ==
    (pc = "done" /\ thrown = None /\ protoSchema # BlankText
        /\ NoMessageBlock(protoSchema)) =>
        LET plain == decode(buffer, EmptySchema, Null, baseOffset)
        IN  /\ res.fields = plain.fields
            /\ res.unparsedHex = plain.unparsedHex
            /\ res.errorBytePos = plain.errorBytePos
            /\ res.error =
                   Some(ParseFailedWarning
                        \o (IF plain.error = None THEN <<>>
                            ELSE <<Str("\n\nDecoding Error: ")>> \o plain.error[1]))

\* C14 witness: a text without a message definition, bytes that decode to a
\* field and then fail: the field, the remainder and the position are kept
\* and the error text carries the warning and the decode error.
C14_Witness ==
    /\ pc = "done"
    /\ thrown = None
    /\ protoSchema = SyntaxOnlyText
    /\ Len(res.fields) >= 1
    /\ res.errorBytePos # None
    /\ Len(res.error[1]) > Len(ParseFailedWarning)
    /\ SubSeq(res.error[1], 1, 3) = ParseFailedWarning

\* the condition of decodeProtobuf's schema-less retry, on the result of the
\* decode with the parsed schema
RetryCondition(result) ==
    Len(result.fields) = 0 /\ Len(buffer) > 0 /\ result.error = None

\* the retry is never taken: a decode of a non-empty buffer returns a field
\* or an error, whatever the schema
RetryNeverTaken ==
    /\ pc = "decode" =>
           ~RetryCondition(decode(buffer, schema, currentMessageName, baseOffset))
    /\ (pc = "done" /\ thrown = None) => ~RetryCondition(res)

\* the input is a string with a character that is no hex digit
HasNonHexCharacter ==
    /\ input.isString
    /\ \E i \in DOMAIN input.data :
           input.data[i] \notin (48..57) \cup (97..102) \cup (65..70)

\* decodeProtobuf has not got past the conversion of its input
DecoderNeverRan ==
    /\ res = NoResult
    /\ buffer = <<>>
    /\ schema = EmptySchema

\* C19 as stated: a hex string with a character that is no hex digit is
\* rejected with 'Invalid hex character' before the decoder runs.
C19_InvalidCharacterError ==
    (pc = "done" /\ HasNonHexCharacter) =>
        /\ thrown = Some(<<Str("Invalid hex character")>>)
        /\ DecoderNeverRan

\* C19 amended: a hex string with a character that is no hex digit is
\* rejected before the decoder runs, with 'Hex string must have an even
\* length' when its length is odd and with 'Invalid hex character'
\* otherwise; no result, field or partial output is returned.
C19_InvalidStringRejected ==
    (pc # "input" /\ HasNonHexCharacter) =>
        /\ pc = "done"
        /\ thrown = Some(<<Str(IF Len(input.data) % 2 = 1
                               THEN "Hex string must have an even length"
                               ELSE "Invalid hex character")>>)
        /\ DecoderNeverRan

\* C19 witness: 08ZZ is rejected with 'Invalid hex character'.
C19_Witness ==
    /\ pc = "done"
    /\ input = HexString(<<48, 56, 90, 90>>)
    /\ thrown = Some(<<Str("Invalid hex character")>>)
    /\ DecoderNeverRan

\* 10 * limbs + c on limbs of 16 bits, least significant first
RECURSIVE MulAddLimbs(_, _)
MulAddLimbs(limbs, c) ==
    IF limbs = <<>> THEN (IF c = 0 THEN <<>> ELSE <<c>>)
    ELSE LET x == 10 * limbs[1] + c
         IN  <<x % 65536>> \o MulAddLimbs(Tail(limbs), x \div 65536)

\* the limbs of the integer a run of decimal digits writes
RECURSIVE ParseLimbs(_)
ParseLimbs(text) ==
    IF text = <<>> THEN <<>>
    ELSE MulAddLimbs(ParseLimbs(SubSeq(text, 1, Len(text) - 1)),
                     text[Len(text)] - 48)

\* the integer a run of decimal digits writes, as a bit set
ParseDigits(text) ==
    LET limbs == ParseLimbs(text)
    IN  {16 * (k - 1) + i : k \in DOMAIN limbs, i \in 0..15} \cap
        {n \in 0..(16 * Len(limbs)) :
            \E k \in DOMAIN limbs :
                /\ n \div 16 = k - 1
                /\ (limbs[k] \div (2 ^ (n % 16))) % 2 = 1}

\* a decimal text as BigInt(text) accepts and toString writes: digits with
\* no leading zero, a minus sign first for a negative value
IsDecimalText(text) ==
    LET digits == IF text # <<>> /\ text[1] = 45 THEN Tail(text) ELSE text
    IN  /\ digits # <<>>
        /\ \A k \in DOMAIN digits : digits[k] \in 48..57
        /\ (digits[1] = 48) => (text = <<48>>)

\* BigInt(text) of a decimal text
ParseDecimal(text) ==
    IF text[1] = 45
    THEN Signed(TRUE, Decrement(ParseDigits(Tail(text))))
    ELSE Signed(FALSE, ParseDigits(text))

\* the value a projected JSON number or decimal text stands for
ProjectedValue(j) == IF j.t = "number" THEN j.v ELSE ParseDecimal(j.text)

NumericKinds == {"varint", "fixed32", "fixed64"}

\* the keys of the returned fields differ, so that entry i of the JSON
\* object is the projection of field i
DistinctKeys ==
    \A i, j \in DOMAIN res.fields :
        keyOf(res.fields[i]) = keyOf(res.fields[j]) => i = j

\* the three interpretations a numeric content carries
SignedOf(c) == IF c.type = "varint" THEN c.asSint ELSE c.asInt

UnsignedOf(c) == Signed(FALSE, c.asUint)

FloatOf(c) == IF c.type = "fixed32" THEN c.asFloat ELSE c.asDouble

\* C20 as stated: the interpretation follows from typeName alone, for each
\* content kind: signed when typeName begins with sint or sfixed, float or
\* double when typeName is exactly float or double, unsigned otherwise.
C20_ChoiceByTypeNameAlone ==
    (pc = "projected" /\ Len(res.fields) > 0 /\ DistinctKeys) =>
        \A i \in DOMAIN res.fields :
            LET f == res.fields[i]
                v == ProjectedValue(json.entries[i].value)
            IN  f.content.type \in NumericKinds =>
                    IF f.typeName \in {"sint32", "sint64", "sfixed32", "sfixed64"}
                    THEN v = SignedOf(f.content)
                    ELSE IF f.typeName = "float" /\ f.content.type = "fixed32"
                    THEN v = f.content.asFloat
                    ELSE IF f.typeName = "double" /\ f.content.type = "fixed64"
                    THEN v = f.content.asDouble
                    ELSE f.typeName \notin {"float", "double"} => v = UnsignedOf(f.content)

\* the type names, in any letter case, that select the signed and the float
\* interpretation of each content kind
SignedNames ==
    [varint |-> {"sint32", "sint64", "SInt32"},
     fixed32 |-> {"sfixed32", "sfixed64"},
     fixed64 |-> {"sfixed32", "sfixed64"}]

FloatNames ==
    [varint |-> {}, fixed32 |-> {"float", "Float"}, fixed64 |-> {"double"}]

\* C20 amended: the interpretation follows from the content kind and the
\* typeName in lower case: a varint is projected signed (zigzag) when the
\* name begins with sint, a fixed32 or fixed64 signed when it begins with
\* sfixed, a fixed32 as a float when it is float, a fixed64 as a double when
\* it is double, and unsigned in every other case, among them sfixed, float
\* or double on a varint, sint or double on a fixed32, sint or float on a
\* fixed64.
C20_ChoiceByKindAndTypeName ==
    (pc = "projected" /\ Len(res.fields) > 0 /\ DistinctKeys) =>
        \A i \in DOMAIN res.fields :
            LET f == res.fields[i]
                v == ProjectedValue(json.entries[i].value)
            IN  f.content.type \in NumericKinds =>
                    /\ json.entries[i].key = keyOf(f)
                    /\ IF f.typeName \in SignedNames[f.content.type]
                       THEN v = SignedOf(f.content)
                       ELSE IF f.typeName \in FloatNames[f.content.type]
                       THEN v = FloatOf(f.content)
                       ELSE v = UnsignedOf(f.content)

\* C20 witness: 08 03 against `sint32 a = 1` is projected as -2, its zigzag
\* value.
C20_Witness ==
    /\ pc = "projected"
    /\ Len(res.fields) = 1
    /\ res.fields[1].typeName = "sint32"
    /\ res.fields[1].content.type = "varint"
    /\ res.fields[1].content.asUint = {0, 1}
    /\ json.entries[1].value = JsonNumber(Signed(TRUE, {0}))

\* the integer the projector takes from a varint or fixed64 content
IntegerOf(f) ==
    IF f.typeName \in SignedNames[f.content.type] THEN SignedOf(f.content)
    ELSE UnsignedOf(f.content)

\* -(2^53 - 1) <= v <= 2^53 - 1
InSafeRange(v) == \A i \in Magnitude(v) : i <= 52

\* j is v itself as a number when v is a safe integer, else a decimal text
\* that parses back to v
ExactOrDecimal(j, v) ==
    IF InSafeRange(v) THEN j = JsonNumber(v)
    ELSE /\ j.t = "string"
         /\ IsDecimalText(j.text)
         /\ ParseDecimal(j.text) = v

\* C21: every 64-bit integer the projector emits (varint, fixed64 or packed
\* element, signed or unsigned) is projected as the number itself when it
\* lies in -(2^53 - 1) .. 2^53 - 1 and otherwise as its decimal text, which
\* parses back to the identical integer.
C21_IntegersKeepPrecision ==
    (pc = "projected" /\ Len(res.fields) > 0 /\ DistinctKeys) =>
        \A i \in DOMAIN res.fields :
            LET f == res.fields[i]
                j == json.entries[i].value
            IN  /\ (f.content.type \in {"varint", "fixed64"}
                        /\ f.typeName \notin FloatNames[f.content.type])
                       => ExactOrDecimal(j, IntegerOf(f))
                /\ f.content.type = "packed" =>
                       /\ j.t = "array"
                       /\ Len(j.items) = Len(f.content.values)
                       /\ \A k \in DOMAIN f.content.values :
                              f.content.values[k].t = "bigint" =>
                                  ExactOrDecimal(j.items[k], f.content.values[k].v)

\* C21 witness: the varint 2^53, the first integer past the safe range, is
\* projected as the text 9007199254740992.
C21_Witness ==
    /\ pc = "projected"
    /\ Len(res.fields) = 1
    /\ res.fields[1].content.type = "varint"
    /\ res.fields[1].content.asUint = {53}
    /\ json.entries[1].value =
           JsonString(<<57, 48, 48, 55, 49, 57, 57, 50, 53, 52, 55, 52, 48, 57, 57, 50>>)

\* a second C21 case: the zigzag varint -(2^53 - 1), the least safe integer,
\* is projected as a number
C21_WitnessSafeNegative ==
    /\ pc = "projected"
    /\ Len(res.fields) = 1
    /\ res.fields[1].typeName = "sint32"
    /\ json.entries[1].value = JsonNumber(Signed(TRUE, 1..52))

\* the fields with the key, in encounter order
RECURSIVE Occurrences(_, _)
Occurrences(fs, key) ==
    IF fs = <<>> THEN <<>>
    ELSE (IF keyOf(fs[1]) = key THEN <<fs[1]>> ELSE <<>>)
             \o Occurrences(Tail(fs), key)

\* the keys of the fields in the order of their first occurrence
RECURSIVE KeysInOrder(_, _)
KeysInOrder(fs, seen) ==
    IF fs = <<>> THEN <<>>
    ELSE LET key == keyOf(fs[1])
         IN  IF key \in seen THEN KeysInOrder(Tail(fs), seen)
             ELSE <<key>> \o KeysInOrder(Tail(fs), seen \cup {key})

\* the projected value of one field
ProjectedField(f) == getPrimitiveValue(f.content, f.typeName)

\* C22: fields are grouped by key in encounter order; a key with exactly
\* one non-packed occurrence projects to the bare value, and a key with
\* n >= 2 non-packed occurrences projects to the array of the n projected
\* values in encounter order.
C22_OccurrencesGrouped ==
    (pc = "projected" /\ Len(res.fields) > 0) =>
        LET keys == KeysInOrder(res.fields, {})
        IN  /\ Len(json.entries) = Len(keys)
            /\ \A k \in DOMAIN keys :
                   LET occ == Occurrences(res.fields, keys[k])
                       e   == json.entries[k]
                   IN  /\ e.key = keys[k]
                       /\ (\A i \in DOMAIN occ : occ[i].content.type # "packed") =>
                              IF Len(occ) = 1 THEN e.value = ProjectedField(occ[1])
                              ELSE e.value =
                                     JsonArray([i \in DOMAIN occ |-> ProjectedField(occ[i])])

\* the hook's state is well formed
HookTypeOK ==
    /\ isLoading \in BOOLEAN
    /\ Len(requests) <= MaxCalls
    /\ Len(results) <= 1

\* the JSON value a path addresses below the value j, None when there is none
RECURSIVE Resolve(_, _)
Resolve(j, path) ==
    IF path = <<>> THEN Some(j)
    ELSE IF j.t # "object" \/ IndexOfKey(j.entries, path[1].key) = 0 THEN None
    ELSE LET under == j.entries[IndexOfKey(j.entries, path[1].key)].value
         IN  IF path[1].index = None THEN Resolve(under, Tail(path))
             ELSE IF under.t = "array" /\ path[1].index[1] < Len(under.items)
             THEN Resolve(under.items[path[1].index[1] + 1], Tail(path))
             ELSE None

\* the JSON value under the key of the last segment of a path
UnderKey(j, path) ==
    Resolve(j, SubSeq(path, 1, Len(path) - 1)
                   \o <<Segment(path[Len(path)].key, None)>>)

\* C23: each path recorded by buildJsonPathMap addresses, in
\* decodedFieldsToJson of the same fields, the projected value of the field
\* whose byteRange is recorded for the path, and the path's last segment has
\* an index exactly when the JSON value under its key is an array of
\* occurrences.
C23_PathsAddressProjectedFields ==
    (results # None /\ Len(results[1].fields) > 0) =>
        \A k \in DOMAIN jsonPathMap :
            LET e == jsonPathMap[k]
                f == CHOOSE g \in AllFields(results[1].fields) :
                         g.byteRange = e.byteRange
                last == e.path[Len(e.path)]
            IN  /\ \E g \in AllFields(results[1].fields) : g.byteRange = e.byteRange
                /\ Resolve(results[1].json[1], e.path) = Some(ProjectedField(f))
                /\ (last.index # None) <=>
                       /\ UnderKey(results[1].json[1], e.path) # None
                       /\ UnderKey(results[1].json[1], e.path)[1].t = "array"
                       /\ f.content.type \notin {"packed"}
                       /\ UnderKey(results[1].json[1], e.path)[1] # ProjectedField(f)

\* the characters of the value names of the model's enums
EnumNameText(name) ==
    IF name = "RED" THEN <<82, 69, 68>>
    ELSE IF name = "GREEN" THEN <<71, 82, 69, 69, 78>>
    ELSE <<>>

\* C24: a VARINT field whose schema type names an enum and whose value has a
\* symbolic name in that enum (the decoder's enumValue) is projected by
\* decodedFieldsToJson as that symbolic name.
C24_EnumNameProjected ==
    (pc = "projected" /\ Len(res.fields) > 0 /\ DistinctKeys) =>
        \A i \in DOMAIN res.fields :
            LET f == res.fields[i]
            IN  (f.content.type = "varint" /\ f.content.enumValue # None) =>
                    /\ json.entries[i].value.t = "string"
                    /\ json.entries[i].value.text = EnumNameText(f.content.enumValue[1])

\* the message whose block holds token k of a schema text, if any
Owner(text, k) ==
    LET opened == {m \in 1..(k - 1) :
                      /\ text[m] = "message"
                      /\ m + 2 <= Len(text)
                      /\ text[m + 2] = "{"
                      /\ \A j \in m..k : text[j] # "}"}
    IN  IF opened = {} THEN None ELSE Some(text[Max(opened) + 1])

\* the positions of the field declarations `type name = number ;` of a text
Declarations(text) ==
    {k \in 1..(Len(text) - 4) :
        /\ text[k] \notin Punctuation
        /\ text[k + 1] \notin Punctuation
        /\ text[k + 2] = "="
        /\ IsNumeral(text[k + 3])
        /\ text[k + 4] = ";"
        /\ Owner(text, k) # None}

\* C25: after parseProto the field map of a message name holds every field
\* declared in any block of that name, a later declaration winning only on
\* an equal field number, so that no later block of the name loses a field
\* of an earlier one.
C25_BlocksMerged ==
    (pc = "decode") =>
        \A k \in Declarations(protoSchema) :
            LET name   == Owner(protoSchema, k)[1]
                number == DecimalValue[protoSchema[k + 3]]
                later  == {j \in Declarations(protoSchema) :
                              /\ j > k
                              /\ Owner(protoSchema, j) = Some(name)
                              /\ DecimalValue[protoSchema[j + 3]] = number}
            IN  /\ name \in DOMAIN schema.messages
                /\ number \in DOMAIN schema.messages[name].fields
                /\ later = {} =>
                       /\ schema.messages[name].fields[number].name = protoSchema[k + 1]
                       /\ schema.messages[name].fields[number].type = protoSchema[k]

\* C28: a decode of a non-empty buffer returns at least one field or an
\* error, so that the condition of decodeProtobuf's schema-less retry never
\* holds of a result, and the nested decode of the embedded-message guess
\* is never rejected for returning no field from a non-empty payload without
\* an error.
C28_FieldOrErrorUnlessEmpty ==
    /\ pc = "done" =>
           /\ (Len(buffer) > 0 => (Len(res.fields) > 0 \/ res.error # None))
           /\ ~RetryCondition(res)
    /\ GuessAtHand =>
           LET bytes      == readBytes(buffer, pos, len).value
               subMessage == decode(bytes, schema, Null, pos + baseOffset)
           IN  (Len(bytes) > 0 /\ subMessage.error = None) =>
                   Len(subMessage.fields) > 0

\* C28 witness: a non-empty buffer decoded to no field, with the error of
\* its first field, and no guess before it.
C28_Witness ==
    /\ pc = "done"
    /\ Len(buffer) > 0
    /\ Len(res.fields) = 0
    /\ res.error # None
    /\ res.errorBytePos # None

\* a second C28 case: a guess on a non-empty payload whose nested decode
\* returns no field, with an error
C28_WitnessGuess ==
    /\ GuessAtHand
    /\ Len(readBytes(buffer, pos, len).value) > 0
    /\ Len(decode(readBytes(buffer, pos, len).value, schema, Null,
                  pos + baseOffset).fields) = 0

\* decodeProtobuf of each message the hook can post
DecodeOf ==
    [data \in Posted |-> decodeProtobuf(data.input, data.protoSchema, 0)]

\* the reply is the one answer the request asks for: success with the whole
\* result of decodeProtobuf and its projected JSON, or failure with an error
\* text
AnswerTo(message, reply) ==
    LET result == DecodeOf[[input |-> message.input,
                            protoSchema |-> message.protoSchema]]
        noInput == message.input.isString /\ message.input.data = <<>>
    IN  IF reply.success
        THEN /\ ~noInput
             /\ result.ok
             /\ reply.data.fields = result.value.fields
             /\ reply.data.error = result.value.error
             /\ reply.data.unparsedHex = result.value.unparsedHex
             /\ reply.data.errorBytePos = result.value.errorBytePos
             /\ reply.data.json =
                    (IF Len(result.value.fields) > 0
                     THEN Some(decodedFieldsToJson(result.value.fields))
                     ELSE None)
        ELSE /\ noInput \/ ~result.ok
             /\ Len(reply.error) > 0

\* the replies posted so far answer, one each and in order, the requests the
\* worker has taken; the requests it has not taken are in its inbox
OneReplyEach ==
    /\ Len(replies) + Len(inbox) = Len(sent)
    /\ \A k \in DOMAIN replies :
           /\ replies[k].id = sent[k].id
           /\ AnswerTo(sent[k], replies[k].reply)

\* C26: the worker answers every request message with exactly one reply,
\* success carrying the complete decode result with its projected JSON or
\* failure carrying an error text; it sends no partial or second reply for
\* a request, and it leaves no request unanswered.
C26_EveryRequestAnsweredOnce ==
    /\ []OneReplyEach
    /\ \A n \in 1..MaxCalls : (Len(sent) >= n) ~> (Len(replies) >= n)

\* C26 witness: the worker has answered two requests, the first with a
\* success and the second (the empty text) with a failure.
C26_Witness ==
    /\ Len(sent) = 2
    /\ Len(replies) = 2
    /\ replies[1].reply.success
    /\ Len(replies[1].reply.data.fields) > 0
    /\ ~replies[2].reply.success
    /\ replies[2].reply.error = NoInputData

\* no timeout is pending and no message is on its way to or from the worker
Quiescent == timers = <<>> /\ inbox = <<>> /\ outbox = <<>>

\* what the hook shows for a request handled alone
OutcomeOf(request) ==
    LET p == processInput(request.input)
    IN  IF ~p.ok THEN Some(FailureResult(p.error))
        ELSE resultsOf(Answers[[input |-> p.processedInput,
                                 protoSchema |-> request.protoSchema]][1])

\* the call whose timeout, message or reply is still on its way
Pending(id) ==
    \/ \E k \in DOMAIN timers : timers[k].id = id
    \/ \E k \in DOMAIN inbox : inbox[k].id = id
    \/ \E k \in DOMAIN outbox : outbox[k].id = id

\* C27: once all timers and worker replies have been handled the hook's
\* results are the outcome of the most recent call of decode, whatever
\* earlier calls were still under way when it was made, and isLoading is not
\* cleared while the most recent call is pending.
C27_LatestCallWins ==
    /\ (Quiescent /\ requests # <<>>) =>
           results = OutcomeOf(requests[Len(requests)])
    /\ (requests # <<>> /\ Pending(Len(requests))) => isLoading

\* C30: jsonPathMap is the path index of the fields of the results shown:
\* it is empty when the latest outcome has no fields or is a failure.
C30_PathMapOfShownResults ==
    results # None => jsonPathMap = buildJsonPathMap(results[1].fields)

\* what is left to do: the bytes not yet read, and the reads left in the
\* field at hand
Measure ==
    IF pc = "done" THEN 0
    ELSE 3 * (Len(buffer) - pos)
           + (IF pc = "value" THEN 3 ELSE IF pc = "payload" THEN 2 ELSE 1)

\* the fields a message field holds
Children(f) == {f.content.fields[k] : k \in DOMAIN f.content.fields}

\* C29: decode terminates: the cursor stays within the buffer and every
\* step of the field loop lowers what is left to do, every pass of the loop
\* consuming at least one byte or ending the decode; every pass of the
\* packed loop consumes at least one byte, a packed field holding no more
\* values than its payload has bytes; and every nested decode runs on a
\* payload strictly shorter than the enclosing buffer, at any depth and
\* also when the schema's message types refer to each other.
C29_DecodeTerminates ==
    /\ [](pos \in 0..Len(buffer))
    /\ [][/\ Measure' < Measure
          /\ pc = "tag" => (pc' = "done" \/ pos' > pos)]_vars
    /\ [](\A f \in AllFields(res.fields) :
             /\ f.content.type = "packed" =>
                    Len(f.content.values) <= Len(PayloadOf(f))
             /\ IsMessage(f) =>
                    /\ Len(PayloadOf(f)) < Len(f.rawBytes)
                    /\ Len(f.rawBytes) <= Len(buffer)
                    /\ \A g \in Children(f) : Len(g.rawBytes) <= Len(PayloadOf(f)))
    /\ [](pc = "payload" /\ readBytes(buffer, pos, len).ok =>
             Len(readBytes(buffer, pos, len).value) < Len(buffer))

\* C29 witness: a decode against the schema whose message Node refers to
\* itself has returned a Node in a Node in a Node.
C29_Witness ==
    /\ pc = "done"
    /\ schema = NodeSchema
    /\ res.error = None
    /\ Len(res.fields) = 1
    /\ res.fields[1].typeName = "Node"
    /\ IsMessage(res.fields[1])
    /\ Len(res.fields[1].content.fields) = 1
    /\ res.fields[1].content.fields[1].typeName = "Node"
    /\ IsMessage(res.fields[1].content.fields[1])
    /\ Len(res.fields[1].content.fields[1].content.fields) = 1

====
